---- MODULE Spec2Model ----
(***************************************************************************)
(* Farm management application: the relational store (database.py), the   *)
(* persistence gateway (db_utils.py) and the Streamlit handlers that      *)
(* write records (app.py).                                                 *)
(*                                                                         *)
(* Tables are sequences of rows in the order a query without ORDER BY     *)
(* returns them.  Rows are records.  Columns that no operation reads and  *)
(* that every handler fills from a widget with a non-null value (notes,   *)
(* description, supplier, phone, dob, session, ...) are left out of the   *)
(* rows; the columns that a uniqueness or foreign-key constraint, a form  *)
(* check or a handler reads are kept.  Dates are day numbers, amounts are *)
(* whole rupees.                                                           *)
(***************************************************************************)
EXTENDS Integers, Sequences, FiniteSets, TLC

(***************************************************************************)
(* Bounds of the model.                                                    *)
(***************************************************************************)
\* the handlers stop accepting submissions once this many rows exist
MaxRows == 2
\* the gateway calls stop once this many rows are stored
MaxGwRows == 3

(***************************************************************************)
(* Python None, per column type.                                           *)
(***************************************************************************)
NullNum == -1
NullStr == "None"

(***************************************************************************)
(* Schema (database.py).  A table is named by the session key the app     *)
(* keeps its listing under; labour_records is the 'workers' table.        *)
(***************************************************************************)
TableNames ==
    {"animals", "milk_records", "breeding_records", "health_records",
     "medicine_inventory", "fodder_cultivation", "feed_inventory",
     "feed_consumption", "labour_records", "attendance", "equipment",
     "equipment_maintenance", "financial_transactions"}

\* the columns get_all_X puts in its DataFrame
ListCols ==
    [animals |-> {"animal_id", "name", "sex", "lifecycle_stage", "status"},
     milk_records |-> {"date", "animal_id", "yield_litres", "usage",
                       "price_per_litre"},
     breeding_records |-> {"animal_id", "insemination_date", "bull_id",
                           "pregnancy_confirmed", "expected_calving",
                           "actual_calving", "calf_id", "calf_sex"},
     health_records |-> {"date", "animal_id", "record_type", "cost"},
     medicine_inventory |-> {"medicine_name", "category", "quantity",
                             "cost_per_unit"},
     fodder_cultivation |-> {"crop_type", "plot_id", "area_acres",
                             "sowing_date", "cost"},
     feed_inventory |-> {"feed_name", "category", "quantity_kg",
                         "purchase_date", "cost_per_kg"},
     feed_consumption |-> {"date", "feed_name", "quantity_kg", "herd_size"},
     labour_records |-> {"worker_id", "name", "category", "daily_wage",
                         "status"},
     attendance |-> {"date", "worker_id", "present", "hours"},
     equipment |-> {"equipment_id", "name", "type", "purchase_date",
                    "purchase_cost", "status"},
     equipment_maintenance |-> {"date", "equipment_id", "maintenance_type",
                                "cost"},
     financial_transactions |-> {"date", "type", "category", "subcategory",
                                 "amount", "reference_id"}]

\* the columns of the mapped class: the primary key id, and photo_path of
\* Animal, are stored but never listed
StoredCols(t) ==
    ListCols[t] \cup {"id"} \cup (IF t = "animals" THEN {"photo_path"} ELSE {})

NumCols ==
    {"id", "date", "yield_litres", "price_per_litre", "insemination_date",
     "expected_calving", "actual_calving", "cost", "quantity",
     "cost_per_unit", "area_acres", "sowing_date", "quantity_kg",
     "purchase_date", "cost_per_kg", "herd_size", "daily_wage", "hours",
     "purchase_cost", "amount"}

ColNull(c) == IF c \in NumCols THEN NullNum ELSE NullStr

\* Column(..., default=0.0)
DefaultZeroCols ==
    [t \in TableNames |->
        CASE t = "health_records" -> {"cost"}
          [] t = "fodder_cultivation" -> {"cost"}
          [] t = "equipment" -> {"purchase_cost"}
          [] t = "equipment_maintenance" -> {"cost"}
          [] OTHER -> {}]

\* Column(..., nullable=False)
NotNullCols ==
    [animals |-> {"animal_id", "sex", "lifecycle_stage", "status"},
     milk_records |-> {"date", "animal_id", "yield_litres", "usage"},
     breeding_records |-> {"animal_id", "insemination_date", "bull_id"},
     health_records |-> {"date", "animal_id", "record_type"},
     medicine_inventory |-> {"medicine_name", "category", "quantity"},
     fodder_cultivation |-> {"crop_type", "plot_id", "area_acres",
                             "sowing_date"},
     feed_inventory |-> {"feed_name", "category", "quantity_kg",
                         "purchase_date"},
     feed_consumption |-> {"date", "feed_name", "quantity_kg", "herd_size"},
     labour_records |-> {"worker_id", "name", "category", "daily_wage",
                         "status"},
     attendance |-> {"date", "worker_id"},
     equipment |-> {"equipment_id", "name", "type", "status"},
     equipment_maintenance |-> {"date", "equipment_id", "maintenance_type"},
     financial_transactions |-> {"date", "type", "category", "amount"}]

\* a schema without unique=True on any column
NoUniqueCols == [t \in TableNames |-> {}]

\* Column(..., unique=True)
UniqueCols ==
    [t \in TableNames |->
        CASE t = "animals" -> {"animal_id"}
          [] t = "medicine_inventory" -> {"medicine_name"}
          [] t = "labour_records" -> {"worker_id"}
          [] t = "equipment" -> {"equipment_id"}
          [] OTHER -> {}]

\* a schema whose reference columns are plain strings
NoForeignKeys == [t \in TableNames |-> {}]

\* Column(..., ForeignKey('table.column'))
ForeignKeys ==
    [t \in TableNames |->
        CASE t \in {"milk_records", "breeding_records", "health_records"} ->
                {[col |-> "animal_id", table |-> "animals",
                  refcol |-> "animal_id"]}
          [] t = "attendance" ->
                {[col |-> "worker_id", table |-> "labour_records",
                  refcol |-> "worker_id"]}
          [] t = "equipment_maintenance" ->
                {[col |-> "equipment_id", table |-> "equipment",
                  refcol |-> "equipment_id"]}
          [] OTHER -> {}]

EmptyStore == [t \in TableNames |-> <<>>]

(***************************************************************************)
(* The SQLAlchemy session as db_utils uses it: construct the mapped       *)
(* object, db.add, db.commit (flush the INSERT or UPDATE, then COMMIT).   *)
(***************************************************************************)
\* X(**data): the attributes given, the column default or None for the rest;
\* the primary key comes from the table's sequence at flush
NewRow(t, data, id) ==
    [c \in StoredCols(t) |->
        IF c = "id" THEN id
        ELSE IF c \in DOMAIN data THEN data[c]
        ELSE IF c \in DefaultZeroCols[t] THEN 0
        ELSE ColNull(c)]

\* the INSERT is rejected by a NOT NULL, UNIQUE or FOREIGN KEY constraint
ViolatesConstraint(store, t, row) ==
    \/ \E c \in NotNullCols[t] : row[c] = ColNull(c)
    \/ \E c \in UniqueCols[t] :
          \E i \in 1..Len(store[t]) : store[t][i][c] = row[c]
    \/ \E fk \in ForeignKeys[t] :
          ~ \E i \in 1..Len(store[fk.table]) :
                store[fk.table][i][fk.refcol] = row[fk.col]

\* a flush that sends the INSERT twice
FlushTwice(store, t, row) ==
    [store EXCEPT ![t] = Append(Append(@, row), row)]

\* db.add(x) and the flush: the row is in the transaction's view
Flush(store, t, row) == [store EXCEPT ![t] = Append(@, row)]

\* a commit whose failure leaves the flushed changes in the store
CommitKeepsView(store, view, ok) == view

\* db.commit(): the store after the attempt.  The transaction's view becomes
\* the store when the COMMIT goes through; otherwise the store keeps its
\* content (the handler's db.rollback() and db.close() drop the view)
Commit(store, view, ok) == IF ok THEN view ELSE store

\* add_X(db, data).  commitOk is FALSE when the connection fails at commit
add_record(store, t, data, commitOk) ==
    LET row == NewRow(t, data, Len(store[t]) + 1)
        ok == commitOk /\ ~ ViolatesConstraint(store, t, row)
    IN  [raised |-> ~ ok,
         dup |-> \E c \in UniqueCols[t] :
                    \E i \in 1..Len(store[t]) : store[t][i][c] = row[c],
         store |-> Commit(store, Flush(store, t, row), ok)]

\* get_all_X(db): one dict per row with the listed columns; the empty frame
\* with the same columns when there is no row
get_all(store, t) ==
    [i \in 1..Len(store[t]) |-> [c \in ListCols[t] |-> store[t][i][c]]]

\* the rows of a sequence, as a set
Range(s) == {s[i] : i \in 1..Len(s)}

\* s without its i-th element
RemoveAt(s, i) == [j \in 1..(Len(s) - 1) |-> IF j < i THEN s[j] ELSE s[j + 1]]

\* an UPDATE without its WHERE clause: every row gets the new values
UpdateEveryRow(rows, i, new, moved) ==
    [j \in 1..Len(rows) |->
        [c \in DOMAIN rows[j] |-> IF c = "id" THEN rows[j][c] ELSE new[c]]]

\* the UPDATE of one row.  Without ORDER BY the new row version is listed
\* either where the old one was or after the other rows
UpdateRow(rows, i, new, moved) ==
    IF moved THEN Append(RemoveAt(rows, i), new)
    ELSE [rows EXCEPT ![i] = new]

\* update_breeding_record(db, record_id, update_data)
update_breeding_record(store, record_id, update_data, commitOk, moved) ==
    LET rows == store["breeding_records"]
        hits == {i \in 1..Len(rows) : rows[i]["id"] = record_id}
    IN  IF hits = {}
        THEN [raised |-> FALSE, found |-> FALSE, store |-> store]
        ELSE LET i == CHOOSE j \in hits : TRUE
                 new == [c \in DOMAIN rows[i] |->
                            IF c \in DOMAIN update_data THEN update_data[c]
                            ELSE rows[i][c]]
                 view == [store EXCEPT !["breeding_records"] =
                             UpdateRow(rows, i, new, moved)]
             IN  [raised |-> ~ commitOk, found |-> TRUE,
                  store |-> Commit(store, view, commitOk)]

\* a pending query without the filter on actual_calving
all_breeding_record_ids(store) ==
    {store["breeding_records"][i]["id"] :
        i \in 1..Len(store["breeding_records"])}

\* get_breeding_records_pending_calving(db)['id'].tolist()
get_breeding_records_pending_calving(store) ==
    LET rows == store["breeding_records"]
    IN  {rows[i]["id"] : i \in {j \in 1..Len(rows) :
                                   rows[j]["actual_calving"] = NullNum}}


(***************************************************************************)
(* State.                                                                  *)
(***************************************************************************)
VARIABLES
    configured,  \* a connection string is present (DATABASE_URL or secret)
    db,          \* the durable store: table name -> rows
    ss,          \* st.session_state of the current browser session
    last         \* the last user operation and how it ended

vars == <<configured, db, ss, last>>

TotalRows(tabs) ==
    Len(tabs["animals"]) + Len(tabs["milk_records"])
    + Len(tabs["breeding_records"]) + Len(tabs["health_records"])
    + Len(tabs["medicine_inventory"]) + Len(tabs["fodder_cultivation"])
    + Len(tabs["feed_inventory"]) + Len(tabs["feed_consumption"])
    + Len(tabs["labour_records"]) + Len(tabs["attendance"])
    + Len(tabs["equipment"]) + Len(tabs["equipment_maintenance"])
    + Len(tabs["financial_transactions"])

\* the rows other than financial transactions
Entities(tabs) == TotalRows(tabs) - Len(tabs["financial_transactions"])

\* a form that adds rows may still be submitted
Room ==
    /\ Entities(db) < MaxRows
    /\ Entities(ss.tables) < MaxRows
    /\ Len(db["financial_transactions"]) < MaxRows
    /\ Len(ss.tables["financial_transactions"]) < MaxRows

(***************************************************************************)
(* database.py module initialisation and app.py script start.              *)
(***************************************************************************)
\* get_engine raises ValueError without a URL; the module catches it and
\* leaves SessionLocal = None
SessionLocalIsNone == ~ configured

\* calling SessionLocal(): None() raises TypeError
SessionLocalCall == IF SessionLocalIsNone THEN "TypeError" ELSE "session"

\* init_db() with engine = None
init_db == IF SessionLocalIsNone THEN "ValueError" ELSE "ok"

\* next(get_db()) with SessionLocal = None
get_db == IF SessionLocalIsNone THEN "ValueError" ELSE "session"

\* an initial load block that catches ValueError alone
CatchesValueErrorOnly == {"ValueError"}

\* the exceptions the initial load block catches (app.py line 126)
InitialLoadCatches == {"ValueError", "TypeError"}

\* the order in which load_data_from_db assigns the session tables
LoadOrder ==
    <<"animals", "milk_records", "breeding_records", "health_records",
      "medicine_inventory", "fodder_cultivation", "feed_inventory",
      "feed_consumption", "labour_records", "attendance", "equipment",
      "equipment_maintenance", "financial_transactions">>

LoadPos(t) == CHOOSE i \in 1..Len(LoadOrder) : LoadOrder[i] = t

\* how many queries of a load succeed before the store fails: none (the
\* store is unreachable) or all of them
LoadOutcomes == {0, Len(LoadOrder)}

FreshSession ==
    [data_loaded |-> FALSE, defined |-> {}, tables |-> EmptyStore]

\* a load that assigns a session table only when its query returned rows
LoadSkipsEmpty(store, s, k) ==
    [s EXCEPT
        !.defined = @ \cup {t \in TableNames :
                               LoadPos(t) <= k /\ store[t] # <<>>},
        !.tables = [t \in TableNames |->
                       IF LoadPos(t) <= k THEN get_all(store, t)
                       ELSE s.tables[t]]]

\* load_data_from_db() with a session: the first k queries succeed, the
\* exception of query k+1 is caught inside and reported with st.error
load_data_from_db(store, s, k) ==
    [s EXCEPT
        !.defined = @ \cup {t \in TableNames : LoadPos(t) <= k},
        !.tables = [t \in TableNames |->
                       IF LoadPos(t) <= k THEN get_all(store, t)
                       ELSE s.tables[t]]]

\* lines 119-139 of app.py, run at the start of every script run
ScriptStart(store, s, k) ==
    IF s.data_loaded THEN [ss |-> s, outcome |-> "rendered"]
    ELSE IF SessionLocalCall = "session"
         THEN [ss |-> [load_data_from_db(store, s, k)
                          EXCEPT !.data_loaded = TRUE],
               outcome |-> "rendered"]
         ELSE IF SessionLocalCall \in InitialLoadCatches
              THEN [ss |-> s, outcome |-> "stopped"]
              ELSE [ss |-> s, outcome |-> "crash"]

NoInput == [none |-> TRUE]

\* what is remembered of an operation: its name; how it ended ("rendered":
\* the page is shown, "stopped": the configuration message and st.stop(),
\* "validation": the form was refused, "success", "error": an exception was
\* caught and shown, "crash": an exception nothing catches); the dict passed
\* to db_utils; the store before the handler; whether a db_utils call raised
\* and the store before that call; whether the key was already there
Outcome(op, outcome, input, pre, raised, callPre, dup) ==
    [op |-> op, outcome |-> outcome, input |-> input, pre |-> pre,
     raised |-> raised, callPre |-> callPre, dup |-> dup]

Init ==
    /\ configured \in BOOLEAN
    /\ db = EmptyStore
    /\ ss = FreshSession
    /\ last = Outcome("none", "none", NoInput, EmptyStore, FALSE, EmptyStore,
                      FALSE)

\* a browser opens the app (also after a process restart): a new session,
\* and the script runs once
StartSession ==
    /\ \E k \in LoadOutcomes :
          LET st == ScriptStart(db, FreshSession, k)
          IN  /\ ss' = st.ss
              /\ last' = Outcome("StartSession", st.outcome, NoInput, db,
                                 FALSE, db, FALSE)
    /\ UNCHANGED <<configured, db>>

\* any interaction with a session that has not loaded its data reruns the
\* script, which runs the initial load block again
Interact ==
    /\ last.op # "none"
    /\ ~ ss.data_loaded
    /\ \E k \in LoadOutcomes :
          LET st == ScriptStart(db, ss, k)
          IN  /\ ss' = st.ss
              /\ last' = Outcome("Interact", st.outcome, NoInput, db, FALSE,
                                 db, FALSE)
    /\ UNCHANGED <<configured, db>>

(***************************************************************************)
(* The handlers of app.py.  A handler is one script run in which the      *)
(* button was pressed.                                                     *)
(***************************************************************************)
\* the financial transaction dict a handler builds
Transaction(date, type, category, subcategory, amount, reference_id) ==
    [date |-> date, type |-> type, category |-> category,
     subcategory |-> subcategory, amount |-> amount,
     reference_id |-> reference_id]

\* the text of the st.error in the else branch of a handler's field check
ValidationMessage(op) ==
    IF op = "AddMaintenance" THEN "Please select equipment"
    ELSE "Please fill all required fields (*)"

\* the form fields a message text mentions
FieldsNamed(message) ==
    IF message = "Please select equipment" THEN {"equipment_id"} ELSE {}

\* st.error("Please fill all required fields (*)"): nothing is written
Rejected(op) ==
    /\ last' = Outcome(op, "validation", NoInput, db, FALSE, db, FALSE)
    /\ UNCHANGED <<configured, db, ss>>

\* an exception nothing catches (AttributeError on a session table that was
\* never assigned, a duplicate widget key): Streamlit shows the traceback
Crashed(op, s) ==
    /\ ss' = s
    /\ last' = Outcome(op, "crash", NoInput, db, FALSE, db, FALSE)
    /\ UNCHANGED <<configured, db>>

\* except Exception as e: st.error(...); db.rollback()  finally: db.close()
Failed(op, input, store, callPre, dup) ==
    /\ db' = store
    /\ last' = Outcome(op, "error", input, db, TRUE, callPre, dup)
    /\ UNCHANGED <<configured, ss>>

\* st.success(...); load_data_from_db(); st.rerun()
Succeeded(op, input, store) ==
    /\ db' = store
    /\ \E k \in LoadOutcomes : ss' = load_data_from_db(store, ss, k)
    /\ last' = Outcome(op, "success", input, db, FALSE, db, FALSE)
    /\ UNCHANGED configured

\* A store-backed handler: try: add_X(db, data) [; add_financial_transaction
\* (db, txn)]; st.success; load_data_from_db(); st.rerun()
\* except Exception: st.error; db.rollback()  finally: db.close().
\* writes is the sequence of <<table, dict>> the handler passes to db_utils;
\* each commit goes through or fails with the connection.
StoreBacked(op, input, writes) ==
    \E ok1 \in BOOLEAN :
        LET r1 == add_record(db, writes[1][1], writes[1][2], ok1)
        IN  IF r1.raised THEN Failed(op, input, r1.store, db, r1.dup)
            ELSE IF Len(writes) = 1 THEN Succeeded(op, input, r1.store)
            ELSE \E ok2 \in BOOLEAN :
                    LET r2 == add_record(r1.store, writes[2][1],
                                         writes[2][2], ok2)
                    IN  IF r2.raised
                        THEN Failed(op, input, r2.store, r1.store, r2.dup)
                        ELSE Succeeded(op, input, r2.store)

\* A session-only handler: st.session_state.X = pd.concat([st.session_state
\* .X, new]) for each write in turn, st.success, st.rerun().  Reading a table
\* that was never assigned raises AttributeError after the earlier writes.
RECURSIVE MemApply(_, _)
MemApply(s, writes) ==
    IF writes = <<>> THEN [ss |-> s, crashed |-> FALSE]
    ELSE LET t == writes[1][1]
         IN  IF t \notin s.defined THEN [ss |-> s, crashed |-> TRUE]
             ELSE MemApply([s EXCEPT !.tables[t] = @ \o writes[1][2]],
                           Tail(writes))

SessionOnly(op, input, writes) ==
    LET r == MemApply(ss, writes)
    IN  IF r.crashed THEN Crashed(op, r.ss)
        ELSE /\ ss' = r.ss
             /\ last' = Outcome(op, "success", input, db, FALSE, db, FALSE)
             /\ UNCHANGED <<configured, db>>

\* the page has been rendered by an earlier run
PageOpen == ss.data_loaded

\* column values of a session table
Column(t, c) == [i \in 1..Len(ss.tables[t]) |-> ss.tables[t][i][c]]

\* what st.selectbox returns: one of the options, or None when there is none
Options(list) == IF list = <<>> THEN {NullStr} ELSE Range(list)

\* rows['animal_id'].tolist()
AnimalIds(rows) == [i \in 1..Len(rows) |-> rows[i]["animal_id"]]

(***************************************************************************)
(* Animal Management: Register Animal (app.py 194-222).                   *)
(***************************************************************************)
AnimalForms ==
    {[animal_id |-> "A1", name |-> "Gauri", sex |-> "Female",
      lifecycle_stage |-> "Adult Cow (3+ years)", status |-> "Active"],
     [animal_id |-> "A1", name |-> "Nandi", sex |-> "Male",
      lifecycle_stage |-> "Bull", status |-> "Active"],
     [animal_id |-> "A2", name |-> "Kamdhenu", sex |-> "Female",
      lifecycle_stage |-> "Heifer (1-3 years)", status |-> "Active"],
     [animal_id |-> "A3", name |-> "Surabhi", sex |-> "Female",
      lifecycle_stage |-> "Adult Cow (3+ years)", status |-> "Sold"],
     [animal_id |-> "", name |-> "Gauri", sex |-> "Female",
      lifecycle_stage |-> "Calf (0-1 year)", status |-> "Active"]}

\* a Register Animal handler without the check of its required fields
RegisterAnimalUnchecked(f) ==
    /\ PageOpen /\ Room
    /\ StoreBacked("RegisterAnimal", f, <<<<"animals", f>>>>)

RegisterAnimal(f) ==
    /\ PageOpen /\ Room
    /\ IF f.animal_id = "" THEN Rejected("RegisterAnimal")
       ELSE StoreBacked("RegisterAnimal", f, <<<<"animals", f>>>>)

(***************************************************************************)
(* Breeding & Genetics: Record Breeding Event (app.py 335-396) and Update *)
(* Calving Record (app.py 398-444).                                        *)
(***************************************************************************)
GestationDays == 283

BreedingForms ==
    {[insemination_date |-> 1, bull_id |-> "B1",
      pregnancy_confirmed |-> "Pending"],
     [insemination_date |-> 1, bull_id |-> "B1",
      pregnancy_confirmed |-> "Yes"],
     [insemination_date |-> 1, bull_id |-> "B1",
      pregnancy_confirmed |-> "No"],
     [insemination_date |-> 1, bull_id |-> "",
      pregnancy_confirmed |-> "Pending"]}

\* day numbers count from 2024-01-01 = 1; datetime.date arithmetic in the
\* (leap) year 2024 and the year after it
MonthLengths ==
    <<31, 29, 31, 30, 31, 30, 31, 31, 30, 31, 30, 31,
      31, 28, 31, 30, 31, 30, 31, 31, 30, 31, 30, 31>>

RECURSIVE MonthOf(_, _)
MonthOf(n, m) ==
    IF n <= MonthLengths[m] THEN <<m, n>> ELSE MonthOf(n - MonthLengths[m], m + 1)

\* the calendar date <<year, month, day>> of a day number
CalendarDate(n) ==
    LET md == MonthOf(n, 1)
    IN  IF md[1] <= 12 THEN <<2024, md[1], md[2]>>
        ELSE <<2025, md[1] - 12, md[2]>>

\* a form that shows the Expected Calving Date input whatever the answer
ExpectedCalvingAlways(f) ==
    {f.insemination_date + GestationDays,
     f.insemination_date + GestationDays + 7}

\* the Expected Calving Date input is shown only for "Yes"; it starts at
\* insemination_date + 283 days and the user may change it (here: a week)
ExpectedCalvingInputs(f) ==
    IF f.pregnancy_confirmed = "Yes"
    THEN {f.insemination_date + GestationDays,
          f.insemination_date + GestationDays + 7}
    ELSE {NullNum}

FemaleActive(r) == r["sex"] = "Female" /\ r["status"] = "Active"

RecordBreeding(f, animal, ec) ==
    /\ PageOpen /\ Room
    /\ IF "animals" \notin ss.defined
       THEN Crashed("RecordBreeding", ss)
       ELSE /\ ss.tables["animals"] # <<>>
            /\ animal \in Options(AnimalIds(SelectSeq(ss.tables["animals"],
                                                     FemaleActive)))
            /\ ec \in ExpectedCalvingInputs(f)
            /\ LET data == [animal_id |-> animal,
                            insemination_date |-> f.insemination_date,
                            bull_id |-> f.bull_id,
                            pregnancy_confirmed |-> f.pregnancy_confirmed,
                            expected_calving |-> ec,
                            actual_calving |-> NullNum,
                            calf_id |-> NullStr,
                            calf_sex |-> NullStr]
               IN  IF animal = NullStr \/ f.bull_id = ""
                   THEN Rejected("RecordBreeding")
                   ELSE StoreBacked("RecordBreeding", data,
                                    <<<<"breeding_records", data>>>>)

CalvingForms ==
    {[actual_calving |-> 290, calf_id |-> "C1", calf_sex |-> "Female"],
     [actual_calving |-> 291, calf_id |-> "C2", calf_sex |-> "Male"]}

\* the button exists for the ids the pending query returned; the query may
\* fail, the UPDATE may leave the row in place or list it last
UpdateCalving(record_id, u) ==
    /\ PageOpen
    /\ IF ~ ({"animals", "breeding_records"} \subseteq ss.defined)
       THEN Crashed("UpdateCalving", ss)
       ELSE /\ ss.tables["breeding_records"] # <<>>
            /\ \/ /\ last' = Outcome("UpdateCalving", "error", NoInput, db,
                                     FALSE, db, FALSE)
                  /\ UNCHANGED <<configured, db, ss>>
               \/ /\ record_id \in get_breeding_records_pending_calving(db)
                  /\ \E ok \in BOOLEAN, moved \in BOOLEAN :
                        LET r == update_breeding_record(db, record_id, u, ok,
                                                        moved)
                            input == [record_id |-> record_id, update |-> u]
                        IN  IF r.raised
                            THEN Failed("UpdateCalving", input, r.store, db,
                                        FALSE)
                            ELSE Succeeded("UpdateCalving", input, r.store)

(***************************************************************************)
(* Milk Collection & Sales: Record Milk Collection (app.py 488-556).      *)
(***************************************************************************)
MilkForms ==
    {[date |-> 1, yield_litres |-> 10, usage |-> "Sold",
      price_per_litre |-> 50],
     [date |-> 2, yield_litres |-> 5, usage |-> "Calf Feeding",
      price_per_litre |-> 50],
     [date |-> 1, yield_litres |-> 0, usage |-> "Sold",
      price_per_litre |-> 50]}

\* a cow list that leaves the lifecycle stage out
FemaleActiveAnyStage(r) == r["sex"] = "Female" /\ r["status"] = "Active"

Lactating(r) ==
    /\ r["sex"] = "Female"
    /\ r["lifecycle_stage"] = "Adult Cow (3+ years)"
    /\ r["status"] = "Active"

\* a handler that books every milk record as a sale
AnyUsage(f) == TRUE

\* if usage == "Sold" (app.py 531)
Sold(f) == f.usage = "Sold"

RecordMilkRun(f, animal) ==
    /\ PageOpen
    /\ IF "animals" \notin ss.defined
       THEN Crashed("RecordMilk", ss)
       ELSE /\ ss.tables["animals"] # <<>>
            /\ animal \in Options(AnimalIds(SelectSeq(ss.tables["animals"],
                                                     Lactating)))
            /\ LET data == [date |-> f.date, animal_id |-> animal,
                            yield_litres |-> f.yield_litres,
                            usage |-> f.usage,
                            price_per_litre |-> f.price_per_litre]
                   txn == Transaction(f.date, "Income", "Milk Sales", animal,
                                      f.yield_litres * f.price_per_litre,
                                      animal)
               IN  IF animal = NullStr \/ ~ (f.yield_litres > 0)
                   THEN Rejected("RecordMilk")
                   ELSE StoreBacked("RecordMilk", data,
                           IF Sold(f)
                           THEN <<<<"milk_records", data>>,
                                  <<"financial_transactions", txn>>>>
                           ELSE <<<<"milk_records", data>>>>)

RecordMilk(f, animal) == Room /\ RecordMilkRun(f, animal)

(***************************************************************************)
(* Fodder & Feed: Add Cultivation Record (app.py 669-708), Add Feed       *)
(* Purchase (749-787), Record Consumption (826-839).                       *)
(***************************************************************************)
CultivationForms ==
    {[crop_type |-> "Maize", plot_id |-> "P1", area_acres |-> 2,
      sowing_date |-> 1, cost |-> 100],
     [crop_type |-> "Maize", plot_id |-> "P1", area_acres |-> 2,
      sowing_date |-> 1, cost |-> 0],
     [crop_type |-> "", plot_id |-> "P1", area_acres |-> 2,
      sowing_date |-> 1, cost |-> 0]}

AddCultivation(f) ==
    /\ PageOpen /\ Room
    /\ LET txn == Transaction(f.sowing_date, "Expense", "Fodder Cultivation",
                              f.crop_type, f.cost, f.plot_id)
       IN  IF f.crop_type = "" \/ f.plot_id = "" \/ ~ (f.area_acres > 0)
           THEN Rejected("AddCultivation")
           ELSE StoreBacked("AddCultivation", f,
                   IF f.cost > 0
                   THEN <<<<"fodder_cultivation", f>>,
                          <<"financial_transactions", txn>>>>
                   ELSE <<<<"fodder_cultivation", f>>>>)

FeedForms ==
    {[feed_name |-> "Cake", category |-> "Grains", quantity_kg |-> 100,
      purchase_date |-> 1, cost_per_kg |-> 2],
     [feed_name |-> "", category |-> "Grains", quantity_kg |-> 100,
      purchase_date |-> 1, cost_per_kg |-> 2]}

AddFeedPurchase(f) ==
    /\ PageOpen /\ Room
    /\ IF "fodder_cultivation" \notin ss.defined
       THEN Crashed("AddFeedPurchase", ss)
       ELSE LET txn == Transaction(f.purchase_date, "Expense",
                                   "Feed Purchase", f.category,
                                   f.quantity_kg * f.cost_per_kg, f.feed_name)
            IN  IF f.feed_name = "" \/ ~ (f.quantity_kg > 0)
                   \/ ~ (f.cost_per_kg >= 0)
                THEN Rejected("AddFeedPurchase")
                ELSE StoreBacked("AddFeedPurchase", f,
                        <<<<"feed_inventory", f>>,
                          <<"financial_transactions", txn>>>>)

ConsumptionForms ==
    {[date |-> 1, quantity_kg |-> 50, herd_size |-> 50],
     [date |-> 1, quantity_kg |-> 0, herd_size |-> 50]}

RecordConsumption(f, feed) ==
    /\ PageOpen /\ Room
    /\ IF ~ ({"fodder_cultivation", "feed_inventory"} \subseteq ss.defined)
       THEN Crashed("RecordConsumption", ss)
       ELSE /\ ss.tables["feed_inventory"] # <<>>
            /\ feed \in Range(Column("feed_inventory", "feed_name"))
            /\ LET data == [date |-> f.date, feed_name |-> feed,
                            quantity_kg |-> f.quantity_kg,
                            herd_size |-> f.herd_size]
               IN  IF feed = "" \/ ~ (f.quantity_kg > 0)
                   THEN Rejected("RecordConsumption")
                   ELSE SessionOnly("RecordConsumption", data,
                                    <<<<"feed_consumption", <<data>>>>>>)

(***************************************************************************)
(* Health & Medicine: Add Health Record (app.py 955-995), Add Medicine    *)
(* (1047-1079).                                                            *)
(***************************************************************************)
HealthForms ==
    {[date |-> 1, record_type |-> "Vaccination", description |-> "FMD",
      cost |-> 30],
     [date |-> 1, record_type |-> "Vaccination", description |-> "FMD",
      cost |-> 0],
     [date |-> 1, record_type |-> "Vaccination", description |-> "",
      cost |-> 0]}

AddHealthRecord(f, animal) ==
    /\ PageOpen /\ Room
    /\ IF "animals" \notin ss.defined
          \/ (ss.tables["animals"] # <<>>
              /\ "medicine_inventory" \notin ss.defined)
       THEN Crashed("AddHealthRecord", ss)
       ELSE /\ ss.tables["animals"] # <<>>
            /\ animal \in Range(AnimalIds(ss.tables["animals"]))
            /\ LET data == [date |-> f.date, animal_id |-> animal,
                            record_type |-> f.record_type, cost |-> f.cost]
                   txn == Transaction(f.date, "Expense", "Health & Medicine",
                                      f.record_type, f.cost, animal)
               IN  IF animal = "" \/ f.description = ""
                   THEN Rejected("AddHealthRecord")
                   ELSE StoreBacked("AddHealthRecord", data,
                           IF f.cost > 0
                           THEN <<<<"health_records", data>>,
                                  <<"financial_transactions", txn>>>>
                           ELSE <<<<"health_records", data>>>>)

MedicineForms ==
    {[medicine_name |-> "M1", category |-> "Vaccine", quantity |-> 5,
      cost_per_unit |-> 10, today |-> 1],
     [medicine_name |-> "M1", category |-> "Antibiotic", quantity |-> 5,
      cost_per_unit |-> 0, today |-> 1],
     [medicine_name |-> "", category |-> "Vaccine", quantity |-> 5,
      cost_per_unit |-> 0, today |-> 1]}

AddMedicine(f) ==
    /\ PageOpen /\ Room
    /\ IF \/ ~ ({"animals", "health_records"} \subseteq ss.defined)
          \/ (ss.tables["animals"] # <<>>
              /\ "medicine_inventory" \notin ss.defined)
       THEN Crashed("AddMedicine", ss)
       ELSE LET data == [medicine_name |-> f.medicine_name,
                         category |-> f.category, quantity |-> f.quantity,
                         cost_per_unit |-> f.cost_per_unit]
                total_cost == f.quantity * f.cost_per_unit
                txn == Transaction(f.today, "Expense", "Medicine Purchase",
                                   f.category, total_cost, f.medicine_name)
            IN  IF f.medicine_name = "" \/ ~ (f.quantity > 0)
                THEN Rejected("AddMedicine")
                ELSE SessionOnly("AddMedicine", data,
                        IF total_cost > 0
                        THEN <<<<"medicine_inventory", <<data>>>>,
                               <<"financial_transactions", <<txn>>>>>>
                        ELSE <<<<"medicine_inventory", <<data>>>>>>)

(***************************************************************************)
(* Labour Management: Add Worker (app.py 1185-1199), Save Attendance      *)
(* (1227-1304).                                                            *)
(***************************************************************************)
WorkerForms ==
    {[worker_id |-> "W1", name |-> "Ram", category |-> "Both",
      daily_wage |-> 500, status |-> "Active"],
     [worker_id |-> "W1", name |-> "Shyam", category |-> "Both",
      daily_wage |-> 400, status |-> "Active"],
     [worker_id |-> "W2", name |-> "Mohan", category |-> "Both",
      daily_wage |-> 500, status |-> "Inactive"],
     [worker_id |-> "", name |-> "Ram", category |-> "Both",
      daily_wage |-> 500, status |-> "Active"]}

AddWorkerRun(f) ==
    /\ PageOpen
    /\ IF f.worker_id = "" \/ f.name = "" \/ ~ (f.daily_wage > 0)
       THEN Rejected("AddWorker")
       ELSE SessionOnly("AddWorker", f, <<<<"labour_records", <<f>>>>>>)

AddWorker(f) == Room /\ AddWorkerRun(f)

IsActive(r) == r["status"] = "Active"

\* a save that pays every listed worker
PresentOrNot(r) == TRUE

\* if present: (app.py 1280)
IsPresent(r) == r["present"]

ActiveWorkers == SelectSeq(ss.tables["labour_records"], IsActive)

ActiveWorkerIds == {ActiveWorkers[i]["worker_id"] : i \in 1..Len(ActiveWorkers)}

AttendanceDates == {1}

\* the Hours input of a worker when it is left alone (app.py 1257)
DefaultHours == 8

\* presentBy and hoursBy are the states of the Present checkboxes and the
\* Hours inputs, keyed by worker_id; two active workers with one worker_id
\* give two widgets with one key
SaveAttendanceRun(date, presentBy, hoursBy) ==
    /\ PageOpen
    /\ IF "labour_records" \notin ss.defined
          \/ Cardinality(ActiveWorkerIds) # Len(ActiveWorkers)
       THEN Crashed("SaveAttendance", ss)
       ELSE /\ ss.tables["labour_records"] # <<>>
            /\ presentBy \in [ActiveWorkerIds -> BOOLEAN]
            /\ DOMAIN hoursBy = ActiveWorkerIds
            /\ LET w == ActiveWorkers
                   attendance_records ==
                       [i \in 1..Len(w) |->
                           [date |-> date, worker_id |-> w[i]["worker_id"],
                            present |-> presentBy[w[i]["worker_id"]],
                            hours |-> hoursBy[w[i]["worker_id"]]]]
                   here == SelectSeq(
                               [i \in 1..Len(w) |->
                                   [worker |-> w[i],
                                    present |-> presentBy[w[i]["worker_id"]]]],
                               IsPresent)
                   transaction_records ==
                       [i \in 1..Len(here) |->
                           Transaction(date, "Expense", "Labour",
                                       here[i].worker["category"],
                                       here[i].worker["daily_wage"],
                                       here[i].worker["worker_id"])]
               IN  SessionOnly("SaveAttendance", [date |-> date],
                       (IF attendance_records # <<>>
                        THEN <<<<"attendance", attendance_records>>>>
                        ELSE <<>>)
                       \o (IF transaction_records # <<>>
                           THEN <<<<"financial_transactions",
                                    transaction_records>>>>
                           ELSE <<>>))

SaveAttendance(date, presentBy) ==
    /\ Room
    /\ SaveAttendanceRun(date, presentBy,
                         [w \in ActiveWorkerIds |-> DefaultHours])

(***************************************************************************)
(* Equipment: Add Equipment (app.py 1412-1441), Add Record (1467-1518).   *)
(***************************************************************************)
EquipmentForms ==
    {[equipment_id |-> "E1", name |-> "Tractor", type |-> "Tractor",
      purchase_date |-> 1, purchase_cost |-> 1000, status |-> "Active"],
     [equipment_id |-> "E1", name |-> "Plough", type |-> "Implement",
      purchase_date |-> 1, purchase_cost |-> 0, status |-> "Idle"],
     [equipment_id |-> "", name |-> "Tractor", type |-> "Tractor",
      purchase_date |-> 1, purchase_cost |-> 0, status |-> "Active"]}

AddEquipment(f) ==
    /\ PageOpen /\ Room
    /\ LET txn == Transaction(f.purchase_date, "Expense",
                              "Equipment Purchase", f.type, f.purchase_cost,
                              f.equipment_id)
       IN  IF f.equipment_id = "" \/ f.name = ""
           THEN Rejected("AddEquipment")
           ELSE SessionOnly("AddEquipment", f,
                   IF f.purchase_cost > 0
                   THEN <<<<"equipment", <<f>>>>,
                          <<"financial_transactions", <<txn>>>>>>
                   ELSE <<<<"equipment", <<f>>>>>>)

MaintenanceForms ==
    {[date |-> 1, maintenance_type |-> "Repair", cost |-> 20],
     [date |-> 1, maintenance_type |-> "Usage Log", cost |-> 0]}

AddMaintenance(f, eq) ==
    /\ PageOpen /\ Room
    /\ IF "equipment" \notin ss.defined
       THEN Crashed("AddMaintenance", ss)
       ELSE /\ ss.tables["equipment"] # <<>>
            /\ eq \in Range(Column("equipment", "equipment_id"))
            /\ LET data == [date |-> f.date, equipment_id |-> eq,
                            maintenance_type |-> f.maintenance_type,
                            cost |-> f.cost]
                   txn == Transaction(f.date, "Expense",
                                      "Equipment Maintenance",
                                      f.maintenance_type, f.cost, eq)
               IN  IF eq = ""
                   THEN Rejected("AddMaintenance")
                   ELSE SessionOnly("AddMaintenance", data,
                           IF f.cost > 0
                           THEN <<<<"equipment_maintenance", <<data>>>>,
                                  <<"financial_transactions", <<txn>>>>>>
                           ELSE <<<<"equipment_maintenance", <<data>>>>>>)

(***************************************************************************)
(* Financial Accounting: Add Transaction (app.py 1623-1639).               *)
(***************************************************************************)
TransactionForms ==
    {[date |-> 1, type |-> "Income", category |-> "Other Income",
      subcategory |-> "", amount |-> 40, reference_id |-> "",
      description |-> "manure"],
     [date |-> 1, type |-> "Expense", category |-> "Utilities",
      subcategory |-> "", amount |-> 0, reference_id |-> "",
      description |-> "power"]}

AddTransaction(f) ==
    /\ PageOpen /\ Room
    /\ LET data == Transaction(f.date, f.type, f.category, f.subcategory,
                               f.amount, f.reference_id)
       IN  IF ~ (f.amount > 0) \/ f.description = ""
           THEN Rejected("AddTransaction")
           ELSE SessionOnly("AddTransaction", data,
                            <<<<"financial_transactions", <<data>>>>>>)

(***************************************************************************)
(* The application: one browser session at a time over the store.         *)
(***************************************************************************)
AnimalIdInputs == {f.animal_id : f \in AnimalForms} \cup {NullStr}

ExpectedCalvingAll == UNION {ExpectedCalvingInputs(f) : f \in BreedingForms}

RecordIds == 1..MaxRows

Next ==
    \/ StartSession
    \/ Interact
    \/ \E f \in AnimalForms : RegisterAnimal(f)
    \/ \E f \in BreedingForms, animal \in AnimalIdInputs,
          ec \in ExpectedCalvingAll : RecordBreeding(f, animal, ec)
    \/ \E id \in RecordIds, u \in CalvingForms : UpdateCalving(id, u)
    \/ \E f \in MilkForms, animal \in AnimalIdInputs : RecordMilk(f, animal)
    \/ \E f \in CultivationForms : AddCultivation(f)
    \/ \E f \in FeedForms : AddFeedPurchase(f)
    \/ \E f \in ConsumptionForms, feed \in {g.feed_name : g \in FeedForms} :
          RecordConsumption(f, feed)
    \/ \E f \in HealthForms, animal \in AnimalIdInputs :
          AddHealthRecord(f, animal)
    \/ \E f \in MedicineForms : AddMedicine(f)
    \/ \E f \in WorkerForms : AddWorker(f)
    \/ \E date \in AttendanceDates,
          presentBy \in UNION {[ids -> BOOLEAN] :
                ids \in SUBSET {f.worker_id : f \in WorkerForms}} :
          SaveAttendance(date, presentBy)
    \/ \E f \in EquipmentForms : AddEquipment(f)
    \/ \E f \in MaintenanceForms,
          eq \in {g.equipment_id : g \in EquipmentForms} :
          AddMaintenance(f, eq)
    \/ \E f \in TransactionForms : AddTransaction(f)

Spec == Init /\ [][Next]_vars

(***************************************************************************)
(* The persistence gateway on its own: db_utils called with any dict and  *)
(* any record id, as its signatures allow.                                 *)
(***************************************************************************)
GatewayData ==
    [animals |->
        {[animal_id |-> "A1", name |-> "Gauri", sex |-> "Female",
          lifecycle_stage |-> "Adult Cow (3+ years)", status |-> "Active"],
         [animal_id |-> "A1", name |-> "Nandi", sex |-> "Male",
          lifecycle_stage |-> "Bull", status |-> "Active"],
         [name |-> "Gauri", sex |-> "Female",
          lifecycle_stage |-> "Calf (0-1 year)", status |-> "Active"],
         [animal_id |-> "A2", name |-> "Kamdhenu", sex |-> "Female",
          lifecycle_stage |-> "Heifer (1-3 years)", status |-> "Active",
          photo_path |-> "a2.jpg"]},
     milk_records |->
        {[date |-> 1, animal_id |-> "A1", yield_litres |-> 10,
          usage |-> "Sold", price_per_litre |-> 50]},
     breeding_records |->
        {[animal_id |-> "A1", insemination_date |-> 1, bull_id |-> "B1",
          pregnancy_confirmed |-> "Yes",
          expected_calving |-> 1 + GestationDays,
          actual_calving |-> NullNum, calf_id |-> NullStr,
          calf_sex |-> NullStr],
         [animal_id |-> "A1", insemination_date |-> 1, bull_id |-> "B1",
          pregnancy_confirmed |-> "Pending"]},
     health_records |->
        {[date |-> 1, animal_id |-> "A1", record_type |-> "Vaccination"]},
     medicine_inventory |->
        {[medicine_name |-> "M1", category |-> "Vaccine", quantity |-> 5,
          cost_per_unit |-> 10],
         [medicine_name |-> "M1", category |-> "Antibiotic", quantity |-> 5,
          cost_per_unit |-> 0]},
     fodder_cultivation |->
        {[crop_type |-> "Maize", plot_id |-> "P1", area_acres |-> 2,
          sowing_date |-> 1, cost |-> 100]},
     feed_inventory |->
        {[feed_name |-> "Cake", category |-> "Grains", quantity_kg |-> 100,
          purchase_date |-> 1, cost_per_kg |-> 2]},
     feed_consumption |->
        {[date |-> 1, feed_name |-> "Cake", quantity_kg |-> 50,
          herd_size |-> 50]},
     labour_records |->
        {[worker_id |-> "W1", name |-> "Ram", category |-> "Both",
          daily_wage |-> 500, status |-> "Active"],
         [worker_id |-> "W1", name |-> "Shyam", category |-> "Both",
          daily_wage |-> 400, status |-> "Active"]},
     attendance |->
        {[date |-> 1, worker_id |-> "W1", present |-> TRUE, hours |-> 8]},
     equipment |->
        {[equipment_id |-> "E1", name |-> "Tractor", type |-> "Tractor",
          purchase_date |-> 1, purchase_cost |-> 1000, status |-> "Active"],
         [equipment_id |-> "E1", name |-> "Plough", type |-> "Implement",
          purchase_date |-> 1, status |-> "Idle"]},
     equipment_maintenance |->
        {[date |-> 1, equipment_id |-> "E1", maintenance_type |-> "Repair",
          cost |-> 20]},
     financial_transactions |->
        {Transaction(1, "Income", "Milk Sales", "A1", 500, "A1")}]

\* add_X(db, data) for the table's mapped class X
GatewayAdd(t, data) ==
    /\ TotalRows(db) < MaxGwRows
    /\ \E ok \in BOOLEAN :
          LET r == add_record(db, t, data, ok)
          IN  /\ db' = r.store
              /\ last' = Outcome("add", IF r.raised THEN "raised"
                                        ELSE "returned",
                                 [table |-> t, data |-> data], db, r.raised,
                                 db, r.dup)
    /\ UNCHANGED <<configured, ss>>

\* update_breeding_record(db, record_id, update_data)
GatewayUpdate(record_id, u) ==
    /\ \E ok \in BOOLEAN, moved \in BOOLEAN :
          LET r == update_breeding_record(db, record_id, u, ok, moved)
          IN  /\ db' = r.store
              /\ last' = Outcome("update",
                                 IF r.raised THEN "raised"
                                 ELSE IF r.found THEN "returned"
                                 ELSE "returned_none",
                                 [record_id |-> record_id, update |-> u], db,
                                 r.raised, db, FALSE)
    /\ UNCHANGED <<configured, ss>>

GatewayIds == 1..(MaxGwRows + 1)

InitGateway ==
    /\ configured = TRUE
    /\ db = EmptyStore
    /\ ss = FreshSession
    /\ last = Outcome("none", "none", NoInput, EmptyStore, FALSE, EmptyStore,
                      FALSE)

NextGateway ==
    \/ \E t \in TableNames : \E data \in GatewayData[t] : GatewayAdd(t, data)
    \/ \E id \in GatewayIds, u \in CalvingForms : GatewayUpdate(id, u)

SpecGateway == InitGateway /\ [][NextGateway]_vars

(***************************************************************************)
(* Properties.                                                             *)
(***************************************************************************)
\* what identifies a listed row: the row itself, for a breeding record the
\* row without the calving outcome that Update Calving Record fills in
Core(t, r) ==
    IF t = "breeding_records"
    THEN [c \in ListCols[t] \ {"actual_calving", "calf_id", "calf_sex"} |->
             r[c]]
    ELSE r

\* the rows a session lists for a table
Listed(s, t) == {Core(t, s.tables[t][i]) : i \in 1..Len(s.tables[t])}

\* C1: durability for every entity type.  When a fresh session starts and
\* its load of the store completes, every record that the previous session
\* listed (each was successfully added) is listed by the fresh session.
C1_FreshSessionListsEveryRecord ==
    [][(/\ last'.op = "StartSession"
        /\ ss.defined = TableNames
        /\ ss'.defined = TableNames)
       => \A t \in TableNames : Listed(ss, t) \subseteq Listed(ss', t)]_vars

\* C2: no record is ever deleted.  Within one session, a record that is in
\* the listing of its table is in that listing after every later operation.
C2_ListedStaysListed ==
    [][(ss.data_loaded /\ last'.op # "StartSession")
       => \A t \in ss.defined :
             /\ t \in ss'.defined
             /\ Listed(ss, t) \subseteq Listed(ss', t)]_vars

\* C3: a successful add_X(fields) followed by get_all_X returns the previous
\* listing followed by exactly one new row; each listed column of that row
\* holds the input's value for it (the column default or None for a column
\* the input leaves out), and no other listing changes.
C3_AddThenListAll ==
    (last.op = "add" /\ last.outcome = "returned")
    => LET t == last.input.table
           data == last.input.data
           old == get_all(last.pre, t)
           new == get_all(db, t)
       IN  /\ Len(new) = Len(old) + 1
           /\ SubSeq(new, 1, Len(old)) = old
           /\ \A c \in ListCols[t] :
                 new[Len(new)][c] =
                    IF c \in DOMAIN data THEN data[c]
                    ELSE IF c \in DefaultZeroCols[t] THEN 0 ELSE ColNull(c)
           /\ \A u \in TableNames \ {t} :
                 get_all(db, u) = get_all(last.pre, u)

\* a row was added to a table that already held rows, with a column left to
\* its default
C3_Witness ==
    /\ last.op = "add" /\ last.outcome = "returned"
    /\ last.input.table = "health_records"
    /\ "cost" \notin DOMAIN last.input.data
    /\ Len(db["health_records"]) = 2

\* C4: Register Animal with an animal_id that is already in the store ends
\* in the duplicate-key error, and the animals table holds exactly the rows
\* it held before the attempt.
C4_DuplicateAnimalRejected ==
    (/\ last.op = "RegisterAnimal"
     /\ last.outcome \in {"success", "error"}
     /\ \E i \in 1..Len(last.pre["animals"]) :
           last.pre["animals"][i]["animal_id"] = last.input.animal_id)
    => /\ last.outcome = "error"
       /\ last.dup
       /\ db["animals"] = last.pre["animals"]

\* animal A1 is registered as Gauri and a second registration of A1, as
\* Nandi, has been refused
C4_Witness ==
    /\ last.op = "RegisterAnimal" /\ last.outcome = "error" /\ last.dup
    /\ last.input.animal_id = "A1" /\ last.input.name = "Nandi"
    /\ \E i \in 1..Len(db["animals"]) : db["animals"][i]["name"] = "Gauri"

\* C5: a listing of workers, equipment or medicines never holds two rows
\* with the same worker_id, equipment_id or medicine_name.
C5_NoTwoRowsShareKey ==
    \A t \in {"labour_records", "equipment", "medicine_inventory"} :
        \A c \in UniqueCols[t] :
            \A i, j \in 1..Len(ss.tables[t]) :
                i # j => ss.tables[t][i][c] # ss.tables[t][j][c]

\* C6: when add_X or update_breeding_record raises, the handler ends with an
\* error message and the store is exactly what it was before that call.
C6_FailedWriteLeavesStore ==
    last.raised => (last.outcome = "error" /\ db = last.callPre)

\* the commit of an Update Calving Record failed on a stored breeding record
C6_Witness ==
    /\ last.op = "UpdateCalving" /\ last.raised
    /\ db["breeding_records"] # <<>>

\* C7: update_breeding_record with a record_id that matches no breeding
\* record raises a not-found error and leaves the store unchanged.
C7_AbsentKeyRaisesNotFound ==
    (/\ last.op = "update"
     /\ ~ \E i \in 1..Len(last.pre["breeding_records"]) :
             last.pre["breeding_records"][i]["id"] = last.input.record_id)
    => /\ last.raised
       /\ last.outcome = "raised"
       /\ db = last.pre

\* C8: without a connection string the session still opens its pages over
\* an in-memory fallback that holds every listing, and no operation ends at
\* the configuration message.
C8_FallbackServesAdds ==
    (~ configured /\ last.op # "none")
    => /\ PageOpen
       /\ ss.defined = TableNames
       /\ last.outcome # "stopped"

\* C9: without a connection string no script run ends in an unhandled
\* exception: session start and every interaction end at the configuration
\* message, and init_db and get_db raise ValueError.
C9_MissingUrlIsConfigurationState ==
    ~ configured
    => /\ last.outcome # "crash"
       /\ last.op # "none" => last.outcome = "stopped"
       /\ init_db = "ValueError"
       /\ get_db = "ValueError"

\* an interaction with the unconfigured app ended at the configuration message
C9_Witness ==
    ~ configured /\ last.op = "Interact" /\ last.outcome = "stopped"

\* C10: a breeding record whose calving has been recorded is not pending and
\* no operation changes it again; rows of the other tables never change, and
\* a breeding record changes in its calving columns only.
C10_SingleCalvingUpdate ==
    [][/\ \A i \in 1..Len(db["breeding_records"]) :
             LET r == db["breeding_records"][i]
             IN  /\ r["actual_calving"] # NullNum
                    => /\ r["id"] \notin
                              get_breeding_records_pending_calving(db)
                       /\ r \in Range(db'["breeding_records"])
                 /\ \E j \in 1..Len(db'["breeding_records"]) :
                       /\ db'["breeding_records"][j]["id"] = r["id"]
                       /\ Core("breeding_records",
                               db'["breeding_records"][j])
                          = Core("breeding_records", r)
       /\ \A t \in TableNames \ {"breeding_records"} :
             /\ Len(db[t]) <= Len(db'[t])
             /\ SubSeq(db'[t], 1, Len(db[t])) = db[t]]_vars

\* Update Calving Record has succeeded for the stored breeding record
C10_Witness ==
    /\ last.op = "UpdateCalving" /\ last.outcome = "success"
    /\ \E i \in 1..Len(db["breeding_records"]) :
          /\ db["breeding_records"][i]["id"] = last.input.record_id
          /\ db["breeding_records"][i]["actual_calving"]
                = last.input.update.actual_calving
          /\ db["breeding_records"][i]["id"] \notin
                get_breeding_records_pending_calving(db)

\* the breeding record that a successful Record Breeding Event has stored
NewBreedingRecord == db["breeding_records"][Len(db["breeding_records"])]

CalvingCols == {"actual_calving", "calf_id", "calf_sex"}

\* the breeding records of a store other than the one with the given id
OtherBreedingRecords(store, id) ==
    {r \in Range(store["breeding_records"]) : r["id"] # id}

\* C12: a calving update that went through changed only actual_calving,
\* calf_id and calf_sex of the selected breeding record: its expected_calving
\* and its other columns, every other breeding record and every other table
\* are what they were before the update.
C12_CalvingUpdateFrame ==
    (last.op = "update" /\ last.outcome = "returned")
    => LET id == last.input.record_id
           before == {r \in Range(last.pre["breeding_records"]) : r["id"] = id}
           after == {r \in Range(db["breeding_records"]) : r["id"] = id}
       IN  /\ Cardinality(before) = 1 /\ Cardinality(after) = 1
           /\ \A r0 \in before, r1 \in after :
                 /\ \A c \in DOMAIN r0 \ CalvingCols : r1[c] = r0[c]
                 /\ \A c \in CalvingCols : r1[c] = last.input.update[c]
           /\ Len(db["breeding_records"]) = Len(last.pre["breeding_records"])
           /\ OtherBreedingRecords(db, id) = OtherBreedingRecords(last.pre, id)
           /\ \A t \in TableNames \ {"breeding_records"} : db[t] = last.pre[t]

\* of two stored breeding records, the one with an expected calving date has
\* had its calving recorded
C12_Witness ==
    /\ last.op = "update" /\ last.outcome = "returned"
    /\ Len(db["breeding_records"]) = 2
    /\ \E r \in Range(db["breeding_records"]) :
          /\ r["id"] = last.input.record_id
          /\ r["expected_calving"] = r["insemination_date"] + GestationDays
          /\ r["actual_calving"] = last.input.update.actual_calving
    /\ \E r \in Range(db["breeding_records"]) :
          r["id"] # last.input.record_id /\ r["actual_calving"] = NullNum

\* C13: every listing is in insertion order: the i-th row that get_all_X
\* returns is the i-th record that was added to the table (primary keys
\* are handed out in the order of the adds).
C13_ListedInInsertionOrder ==
    \A t \in TableNames :
        \A i \in 1..Len(db[t]) : db[t][i]["id"] = i

\* a step in which a form is submitted with a required field empty, zero or
\* unselected, on a session whose pages render
MissingFieldSubmission ==
    /\ ss.defined = TableNames
    /\ \/ \E f \in AnimalForms : f.animal_id = "" /\ RegisterAnimal(f)
       \/ \E f \in BreedingForms, animal \in AnimalIdInputs,
             ec \in ExpectedCalvingAll :
             /\ f.bull_id = "" \/ animal = NullStr
             /\ RecordBreeding(f, animal, ec)
       \/ \E f \in MilkForms, animal \in AnimalIdInputs :
             /\ f.yield_litres = 0 \/ animal = NullStr
             /\ RecordMilk(f, animal)
       \/ \E f \in CultivationForms : f.crop_type = "" /\ AddCultivation(f)
       \/ \E f \in FeedForms : f.feed_name = "" /\ AddFeedPurchase(f)
       \/ \E f \in ConsumptionForms, feed \in {g.feed_name : g \in FeedForms} :
             f.quantity_kg = 0 /\ RecordConsumption(f, feed)
       \/ \E f \in HealthForms, animal \in AnimalIdInputs :
             f.description = "" /\ AddHealthRecord(f, animal)
       \/ \E f \in MedicineForms : f.medicine_name = "" /\ AddMedicine(f)
       \/ \E f \in WorkerForms : f.worker_id = "" /\ AddWorker(f)
       \/ \E f \in EquipmentForms : f.equipment_id = "" /\ AddEquipment(f)
       \/ \E f \in TransactionForms : f.amount = 0 /\ AddTransaction(f)

Cites ==
    [milk_records |-> <<"animal_id", "animals", "animal_id">>,
     breeding_records |-> <<"animal_id", "animals", "animal_id">>,
     health_records |-> <<"animal_id", "animals", "animal_id">>,
     attendance |-> <<"worker_id", "labour_records", "worker_id">>,
     equipment_maintenance |-> <<"equipment_id", "equipment",
                                 "equipment_id">>]

\* an add_X call whose dict cites an entity that the store does not hold
CitesMissingEntity ==
    /\ last.op = "add"
    /\ last.input.table \in DOMAIN Cites
    /\ LET c == Cites[last.input.table]
       IN  /\ c[1] \in DOMAIN last.input.data
           /\ ~ \E r \in Range(last.pre[c[2]]) :
                   r[c[3]] = last.input.data[c[1]]

CitedAnimals(r) == {a \in Range(db["animals"]) : a["animal_id"] = r["animal_id"]}

\* C17: every milk record stored through Record Milk Collection cites an
\* animal that is Female, in stage Adult Cow and Active, and every breeding
\* record stored through Record Breeding Event cites an animal that is Female
\* and Active
C17_OnlyEligibleAnimalsRecorded ==
    /\ \A r \in Range(db["milk_records"]) :
          /\ CitedAnimals(r) # {}
          /\ \A a \in CitedAnimals(r) :
                /\ a["sex"] = "Female"
                /\ a["lifecycle_stage"] = "Adult Cow (3+ years)"
                /\ a["status"] = "Active"
    /\ \A r \in Range(db["breeding_records"]) :
          /\ CitedAnimals(r) # {}
          /\ \A a \in CitedAnimals(r) :
                a["sex"] = "Female" /\ a["status"] = "Active"
    /\ (last.op \in {"RecordMilk", "RecordBreeding"}
          /\ last.outcome = "success")
       => \E a \in Range(ss.tables["animals"]) :
             /\ a["animal_id"] = last.input.animal_id
             /\ a["sex"] = "Female" /\ a["status"] = "Active"
             /\ last.op = "RecordMilk"
                => a["lifecycle_stage"] = "Adult Cow (3+ years)"

\* Record Milk Collection has just stored a record for cow A1
C17_Witness ==
    /\ last.op = "RecordMilk"
    /\ last.outcome = "success"
    /\ last.input.animal_id = "A1"
    /\ Len(db["milk_records"]) = 1

(***************************************************************************)
(* Several browser sessions over one store.  A script run holds its own   *)
(* SQLAlchemy session; the store runs each statement on the latest        *)
(* committed rows (READ COMMITTED) and each commit is atomic.  In this    *)
(* specification ss maps a browser session to the position of its script  *)
(* run, and last keeps what has been committed.                            *)
(***************************************************************************)
\* the rows stored by the concurrent sessions stay below this number
MaxConcRows == 3

Sessions == {"s1", "s2", "s3"}

ConcIds == 1..MaxConcRows

ConcAddData ==
    [animals |->
        {[animal_id |-> "A1", name |-> "Gauri", sex |-> "Female",
          lifecycle_stage |-> "Adult Cow (3+ years)", status |-> "Active"]},
     breeding_records |->
        {[animal_id |-> "A1", insemination_date |-> 1, bull_id |-> "B1",
          pregnancy_confirmed |-> "Pending", expected_calving |-> NullNum,
          actual_calving |-> NullNum, calf_id |-> NullStr,
          calf_sex |-> NullStr]}]

\* what three users enter in the Update Calving Record form
ConcCalvingForms ==
    {[actual_calving |-> 290, calf_id |-> "C1", calf_sex |-> "Female"],
     [actual_calving |-> 291, calf_id |-> "C2", calf_sex |-> "Female"],
     [actual_calving |-> 292, calf_id |-> "C3", calf_sex |-> "Male"]}

IdleRun ==
    [pc |-> "idle", pending |-> {}, record_id |-> 0, update_data |-> NoInput,
     changed |-> {}]

\* db.query(BreedingRecord).filter(id == record_id).first() (line 98).  The
\* session's identity map is weak-referencing: the object loaded by the
\* pending query is returned with the attributes loaded then if it is still
\* alive, and is loaded afresh from the latest committed row if it has been
\* collected
LoadedAttributes(held, current) == {held, current}

\* the unit of work: the columns whose new value differs from the loaded one
ChangedCols(loaded, update_data) ==
    {c \in DOMAIN update_data : update_data[c] # loaded[c]}

InitConcurrent ==
    /\ configured = TRUE
    /\ db = EmptyStore
    /\ ss = [s \in Sessions |-> IdleRun]
    /\ last = [added |-> <<>>,
               committed |-> [id \in ConcIds |-> NoInput],
               writers |-> [id \in ConcIds |-> {}]]

\* a session's handler calls add_X: one INSERT and COMMIT
ConcurrentAdd(s, t, data) ==
    /\ ss[s].pc = "idle"
    /\ TotalRows(db) < MaxConcRows
    /\ \E ok \in BOOLEAN :
          LET r == add_record(db, t, data, ok)
          IN  /\ db' = r.store
              /\ last' = IF r.raised THEN last
                         ELSE [last EXCEPT !.added =
                                  Append(@, [table |-> t,
                                             row |-> r.store[t][Len(r.store[t])]])]
    /\ UNCHANGED <<configured, ss>>

\* the script run of the breeding page reaches the pending query (line 407)
ConcurrentPendingQuery(s) ==
    /\ ss[s].pc = "idle"
    /\ LET rows == {r \in Range(db["breeding_records"]) :
                       r["id"] \in get_breeding_records_pending_calving(db)}
       IN  /\ rows # {}
           /\ ss' = [ss EXCEPT ![s] = [IdleRun EXCEPT !.pc = "listed",
                                                      !.pending = rows]]
    /\ UNCHANGED <<configured, db, last>>

\* the button was pressed in this run: update_breeding_record queries the
\* record and sets the attributes (lines 98-101)
ConcurrentSetAttributes(s, record_id, u) ==
    /\ ss[s].pc = "listed"
    /\ \E held \in ss[s].pending, current \in Range(db["breeding_records"]) :
       \E loaded \in LoadedAttributes(held, current) :
          /\ held["id"] = record_id
          /\ current["id"] = record_id
          /\ ss' = [ss EXCEPT ![s] =
                       [@ EXCEPT !.pc = "dirty",
                                 !.record_id = record_id,
                                 !.update_data = u,
                                 !.changed = ChangedCols(loaded, u)]]
    /\ UNCHANGED <<configured, db, last>>

\* db.commit() (line 102): UPDATE ... SET <changed columns> WHERE id = ...,
\* applied to the latest committed row; or the commit fails and the handler
\* rolls back
ConcurrentCommit(s) ==
    /\ ss[s].pc = "dirty"
    /\ \E ok \in BOOLEAN, moved \in BOOLEAN :
          LET rows == db["breeding_records"]
              i == CHOOSE j \in 1..Len(rows) : rows[j]["id"] = ss[s].record_id
              new == [c \in DOMAIN rows[i] |->
                         IF c \in ss[s].changed THEN ss[s].update_data[c]
                         ELSE rows[i][c]]
              view == [db EXCEPT !["breeding_records"] =
                          UpdateRow(rows, i, new, moved)]
          IN  /\ db' = Commit(db, view, ok)
              /\ last' = IF ok
                         THEN [last EXCEPT
                                  !.committed[ss[s].record_id] =
                                      ss[s].update_data,
                                  !.writers[ss[s].record_id] = @ \cup {s}]
                         ELSE last
    /\ ss' = [ss EXCEPT ![s] = IdleRun]
    /\ UNCHANGED configured

NextConcurrent ==
    \/ \E s \in Sessions, t \in DOMAIN ConcAddData :
          \E data \in ConcAddData[t] : ConcurrentAdd(s, t, data)
    \/ \E s \in Sessions : ConcurrentPendingQuery(s)
    \/ \E s \in Sessions, id \in ConcIds, u \in ConcCalvingForms :
          ConcurrentSetAttributes(s, id, u)
    \/ \E s \in Sessions : ConcurrentCommit(s)

SpecConcurrent == InitConcurrent /\ [][NextConcurrent]_vars

\* C16: with several sessions on one store every add that returned is still
\* stored, and a breeding record that calving updates were committed to
\* holds the three calving fields of the update that committed last.
C16_LastWriterWins ==
    /\ \A k \in 1..Len(last.added) :
          \E r \in Range(db[last.added[k].table]) :
             /\ r["id"] = last.added[k].row["id"]
             /\ \A c \in DOMAIN r \ CalvingCols : r[c] = last.added[k].row[c]
    /\ \A r \in Range(db["breeding_records"]) :
          last.committed[r["id"]] # NoInput
          => \A c \in CalvingCols : r[c] = last.committed[r["id"]][c]

(***************************************************************************)
(* Reports and dashboards (app.py 600-625, 866-912, 1082-1100, 1738-1800, *)
(* 1822-1985, 2058-2090).  Each works on the session tables of the script *)
(* run that shows it.                                                      *)
(***************************************************************************)
\* the session tables a report is computed over hold at most this many milk
\* records
MaxReportRows == 3

\* a Timestamp counts the seconds since day 0; a datetime.date is a day
\* number, and every day number of the model is below one day of seconds
SecondsPerDay == 86400

\* pd.to_datetime of a datetime.date: the Timestamp of its midnight; a
\* Timestamp stays as it is
to_datetime(d) == IF d < SecondsPerDay THEN d * SecondsPerDay ELSE d

\* a datetime.date, not a Timestamp
IsDate(d) == d < SecondsPerDay

\* the frames of a report run: the session tables, and the frames local to
\* the run
Frames(tables) == [session |-> tables, local |-> tables]

\* a report that works on the session frame itself
NoCopy(frame) == frame

\* st.session_state.X.copy(): a frame of the run's own with the same rows
copy(frame) == "local"

\* df[col] = pd.to_datetime(df[col]) on table t of a frame
SetDatetimeColumn(env, frame, t, col) ==
    [env EXCEPT ![frame][t] =
        [i \in 1..Len(@) |-> [@[i] EXCEPT ![col] = to_datetime(@)]]]

\* Series.sum(): 0 for no rows
RECURSIVE SumOf(_, _)
SumOf(rows, col) ==
    IF rows = <<>> THEN 0 ELSE rows[1][col] + SumOf(Tail(rows), col)

\* a float quotient num / den, kept as the fraction
Divide(num, den) == [num |-> num, den |-> den]

\* the product of two quotients
Times(a, b) == [num |-> a.num * b.num, den |-> a.den * b.den]

\* Series.mean()
MeanOf(rows, col) == Divide(SumOf(rows, col), Len(rows))

\* a frame that keeps the first value of each group
GroupByFirst(rows, key, val) ==
    {(key :> rows[i][key]) @@ (val :> rows[i][val]) :
        i \in {j \in 1..Len(rows) :
                  \A k \in 1..(j - 1) : rows[k][key] # rows[j][key]}}

\* df.groupby(key)[val].sum().reset_index(): one row per value of the key
\* column, holding the key and the sum of val over the rows with that key
GroupBySum(rows, key, val) ==
    {(key :> k) @@ (val :> SumOf(SelectSeq(rows, LAMBDA r : r[key] = k), val)) :
        k \in {rows[i][key] : i \in 1..Len(rows)}}

\* df.groupby(key).size()
GroupBySize(rows, key) ==
    {(key :> k) @@ ("count" :> Len(SelectSeq(rows, LAMBDA r : r[key] = k))) :
        k \in {rows[i][key] : i \in 1..Len(rows)}}

\* df.columns = [...]: column old is now called new
Rename(frame, old, new) ==
    {[c \in (DOMAIN r \ {old}) \cup {new} |->
         IF c = new THEN r[old] ELSE r[c]] : r \in frame}

\* a merge with how='outer': rows without a partner are kept, with NaN
\* (NullNum) for the numbers of the other side
OuterMerge(left, right, on) ==
    {p[1] @@ p[2] : p \in {q \in left \X right : q[1][on] = q[2][on]}}
    \cup {l @@ [c \in UNION {DOMAIN x : x \in right} |-> NullNum] :
             l \in {y \in left : \A x \in right : x[on] # y[on]}}
    \cup {r @@ [c \in UNION {DOMAIN y : y \in left} |-> NullNum] :
             r \in {x \in right : \A y \in left : y[on] # x[on]}}

\* pd.merge(left, right, on=on, how='inner'): one row per pair of rows that
\* agree on the key
merge(left, right, on) ==
    {p[1] @@ p[2] : p \in {q \in left \X right : q[1][on] = q[2][on]}}

\* left.merge(right[cols], on=on, how='left'): every left row, with the
\* columns of each right row that agrees on the key, or NaN (the null of
\* the column) for none
LeftMerge(left, right, cols, on) ==
    LET picked == {[c \in cols |-> r[c]] : r \in Range(right)}
    IN  {p[1] @@ p[2] : p \in {q \in left \X picked : q[1][on] = q[2][on]}}
        \cup {l @@ [c \in cols |-> ColNull(c)] :
                 l \in {y \in left : \A x \in picked : x[on] # y[on]}}

\* what a report run leaves: the session tables, and what it has shown
Shown(env, outcome, frames) ==
    [session |-> env.session, outcome |-> outcome, frames |-> frames]

\* Sales Analytics, daily production (app.py 603-607)
DailyProductionReport(tables) ==
    IF tables["milk_records"] = <<>>
    THEN Shown(Frames(tables), "info", <<>>)
    ELSE LET milk_df == copy("session")
             env == SetDatetimeColumn(Frames(tables), milk_df,
                                      "milk_records", "date")
             daily_production ==
                 GroupBySum(env[milk_df]["milk_records"], "date",
                            "yield_litres")
         IN  Shown(env, "shown", [daily_production |-> daily_production])

\* Cow-wise Productivity (app.py 1825-1854)
CowProductivityReport(tables) ==
    IF tables["animals"] = <<>> \/ tables["milk_records"] = <<>>
    THEN Shown(Frames(tables), "info", <<>>)
    ELSE LET milk_df == copy("session")
             env == Frames(tables)
             rows == env[milk_df]["milk_records"]
             totals == Rename(GroupBySum(rows, "animal_id", "yield_litres"),
                              "yield_litres", "Total Milk (L)")
             sessions == Rename(GroupBySize(rows, "animal_id"),
                                "count", "Sessions")
             productivity ==
                 LeftMerge(merge(totals, sessions, "animal_id"),
                           env.session["animals"],
                           {"animal_id", "name", "lifecycle_stage"},
                           "animal_id")
         IN  Shown(env, "shown", [productivity |-> productivity])

\* Feed Efficiency Analysis (app.py 1891-1933)
FeedEfficiencyReport(tables) ==
    IF tables["feed_consumption"] = <<>> \/ tables["milk_records"] = <<>>
    THEN Shown(Frames(tables), "info", <<>>)
    ELSE LET feed_df == copy("session")
             env1 == SetDatetimeColumn(Frames(tables), feed_df,
                                       "feed_consumption", "date")
             milk_df == copy("session")
             env == SetDatetimeColumn(env1, milk_df, "milk_records", "date")
             daily_feed ==
                 Rename(GroupBySum(env[feed_df]["feed_consumption"], "date",
                                   "quantity_kg"),
                        "quantity_kg", "feed_kg")
             daily_milk ==
                 Rename(GroupBySum(env[milk_df]["milk_records"], "date",
                                   "yield_litres"),
                        "yield_litres", "milk_litres")
             merged == merge(daily_feed, daily_milk, "date")
             efficiency ==
                 {r @@ [feed_per_litre |-> Divide(r["feed_kg"],
                                                  r["milk_litres"])] :
                     r \in merged}
             feed_inventory == env.session["feed_inventory"]
             costed ==
                 IF feed_inventory = <<>> THEN efficiency
                 ELSE {r @@ [feed_cost_per_litre |->
                                Times(r["feed_per_litre"],
                                      MeanOf(feed_inventory, "cost_per_kg"))] :
                          r \in efficiency}
         IN  Shown(env, "shown", [efficiency |-> costed])

\* wages paid by the hour, a day being eight hours
WagesByHours(r) ==
    IF r["daily_wage"] = NullNum THEN NullNum
    ELSE (r["total_hours"] * r["daily_wage"]) \div 8

\* worker_summary['days_worked'] * worker_summary['daily_wage'] (app.py
\* 1954); NaN for a worker the merge found no wage for
TotalWages(r) ==
    IF r["daily_wage"] = NullNum THEN NullNum
    ELSE r["days_worked"] * r["daily_wage"]

\* Labour Cost Breakdown (app.py 1935-1985)
LabourCostReport(tables) ==
    IF tables["attendance"] = <<>> \/ tables["labour_records"] = <<>>
    THEN Shown(Frames(tables), "info", <<>>)
    ELSE LET attendance_df == copy("session")
             env == SetDatetimeColumn(Frames(tables), attendance_df,
                                      "attendance", "date")
             present == SelectSeq(env[attendance_df]["attendance"],
                                  LAMBDA r : r["present"])
             days == Rename(GroupBySize(present, "worker_id"),
                            "count", "days_worked")
             hours == Rename(GroupBySum(present, "worker_id", "hours"),
                             "hours", "total_hours")
             worker_summary ==
                 LeftMerge(merge(days, hours, "worker_id"),
                           env.session["labour_records"],
                           {"worker_id", "name", "category", "daily_wage"},
                           "worker_id")
             waged ==
                 {r @@ [total_wages |-> TotalWages(r)] : r \in worker_summary}
         IN  Shown(env, "shown", [worker_summary |-> waged])

\* a period without its first and last day
StrictlyInPeriod(r, pl_from, pl_to) ==
    /\ to_datetime(pl_from) < r["date"]
    /\ r["date"] < to_datetime(pl_to)

\* (df['date'] >= pd.to_datetime(pl_from)) & (df['date'] <=
\* pd.to_datetime(pl_to)) (app.py 1748-1751, 1785-1788)
InPeriod(r, pl_from, pl_to) ==
    /\ to_datetime(pl_from) <= r["date"]
    /\ r["date"] <= to_datetime(pl_to)

\* Profit & Loss (app.py 1738-1808), for the period the two date inputs
\* give; per_litre is the Per Litre Analysis, <<>> when it is not shown
ProfitAndLossReport(tables, pl_from, pl_to) ==
    IF tables["financial_transactions"] = <<>>
    THEN Shown(Frames(tables), "info", [period |-> <<pl_from, pl_to>>])
    ELSE LET trans_df == copy("session")
             env1 == SetDatetimeColumn(Frames(tables), trans_df,
                                       "financial_transactions", "date")
             filtered_pl ==
                 SelectSeq(env1[trans_df]["financial_transactions"],
                           LAMBDA r : InPeriod(r, pl_from, pl_to))
             total_income ==
                 SumOf(SelectSeq(filtered_pl, LAMBDA r : r["type"] = "Income"),
                       "amount")
             total_expense ==
                 SumOf(SelectSeq(filtered_pl, LAMBDA r : r["type"] = "Expense"),
                       "amount")
             net_profit == total_income - total_expense
             milk_df == copy("session")
             env == IF filtered_pl = <<>> \/ tables["milk_records"] = <<>>
                    THEN env1
                    ELSE SetDatetimeColumn(env1, milk_df, "milk_records",
                                           "date")
             filtered_milk ==
                 IF tables["milk_records"] = <<>> THEN <<>>
                 ELSE SelectSeq(env[milk_df]["milk_records"],
                                LAMBDA r : InPeriod(r, pl_from, pl_to))
             total_milk == SumOf(filtered_milk, "yield_litres")
         IN  IF filtered_pl = <<>>
             THEN Shown(env, "info", [period |-> <<pl_from, pl_to>>])
             ELSE Shown(env, "shown",
                        [period |-> <<pl_from, pl_to>>,
                         total_income |-> total_income,
                         total_expense |-> total_expense,
                         net_profit |-> net_profit,
                         per_litre |->
                            IF filtered_milk # <<>> /\ total_milk > 0
                            THEN [total_milk |-> total_milk,
                                  cost_per_litre |->
                                     Divide(total_expense, total_milk),
                                  profit_per_litre |->
                                     Divide(net_profit, total_milk)]
                            ELSE <<>>])

\* pd.to_datetime(expiry_date) <= pd.to_datetime(today + timedelta(days=30))
\* (app.py 1084-1087)
ExpiringSoon(r, today) ==
    to_datetime(r["expiry_date"]) <= to_datetime(today + 30)

\* a reorder alert that waits until the stock is below the level
BelowReorderLevel(r) == r["quantity"] < r["reorder_level"]

\* quantity <= reorder_level (app.py 1094-1097)
LowStock(r) == r["quantity"] <= r["reorder_level"]

\* Health: medicine alerts (app.py 1082-1100), on the day the page is shown
MedicineAlerts(tables, today) ==
    IF tables["medicine_inventory"] = <<>>
    THEN Shown(Frames(tables), "info", [today |-> today])
    ELSE LET env == Frames(tables)
             medicine_inventory == env.session["medicine_inventory"]
             expiring_soon ==
                 SelectSeq(medicine_inventory,
                           LAMBDA r : ExpiringSoon(r, today))
             low_stock == SelectSeq(medicine_inventory, LowStock)
         IN  Shown(env, "shown",
                   [today |-> today, expiring_soon |-> expiring_soon,
                    low_stock |-> low_stock])

\* df.groupby([k1, k2]).size().reset_index(name='count')
GroupBySize2(rows, k1, k2) ==
    {(k1 :> k[1]) @@ (k2 :> k[2])
        @@ ("count" :> Len(SelectSeq(rows, LAMBDA r : r[k1] = k[1]
                                                     /\ r[k2] = k[2]))) :
        k \in {<<rows[i][k1], rows[i][k2]>> : i \in 1..Len(rows)}}

\* Asset Summary: animals, equipment and financial summary (app.py
\* 2039-2088); an empty table gives its st.info line
AssetSummaryReport(tables) ==
    LET trans_df == copy("session")
        env == Frames(tables)
        animals == env.session["animals"]
        equipment == env.session["equipment"]
        trans == env[trans_df]["financial_transactions"]
        total_income ==
            SumOf(SelectSeq(trans, LAMBDA r : r["type"] = "Income"), "amount")
        total_expense ==
            SumOf(SelectSeq(trans, LAMBDA r : r["type"] = "Expense"), "amount")
    IN  Shown(env, "shown",
              [animal_summary |->
                   GroupBySize2(animals, "lifecycle_stage", "sex"),
               active_animals |->
                   Len(SelectSeq(animals, LAMBDA r : r["status"] = "Active")),
               equipment_summary |-> GroupBySize2(equipment, "type", "status"),
               total_value |-> SumOf(equipment, "purchase_cost"),
               net |-> IF trans = <<>> THEN "No financial records"
                       ELSE total_income - total_expense])

(***************************************************************************)
(* The reports over the session tables a farm's data entry leaves: the    *)
(* animals, milk records, feed purchase and its transaction loaded from   *)
(* the store, then consumption, workers, attendance, equipment and        *)
(* medicine entered in the session.                                        *)
(***************************************************************************)
SeqsUpTo(S, n) == UNION {[1..k -> S] : k \in 0..n}

ReportAnimals ==
    <<[animal_id |-> "A1", name |-> "Gauri", sex |-> "Female",
       lifecycle_stage |-> "Adult Cow (3+ years)", status |-> "Active"],
      [animal_id |-> "A4", name |-> "Ganga", sex |-> "Female",
       lifecycle_stage |-> "Adult Cow (3+ years)", status |-> "Active"]>>

\* the Record Milk Collection forms submitted
ReportMilkForms ==
    {[date |-> m[1], animal_id |-> m[2], yield_litres |-> m[3],
      usage |-> "Calf Feeding", price_per_litre |-> 50] :
        m \in {<<1, "A1", 10>>, <<1, "A4", 5>>, <<2, "A1", 7>>,
               <<3, "A1", 5>>, <<4, "A4", 0>>}}

\* if animal_id and yield_litres > 0 (app.py 517)
MilkAccepted(f) == f.animal_id # NullStr /\ f.yield_litres > 0

\* the milk records a session can list: those of the forms accepted
ReportMilkRows == {f \in ReportMilkForms : MilkAccepted(f)}

ReportFeedInventory ==
    <<[feed_name |-> "Cake", category |-> "Grains", quantity_kg |-> 100,
       purchase_date |-> 1, cost_per_kg |-> 2]>>

\* the Record Consumption forms submitted
ReportConsumptionForms ==
    {[date |-> c[1], feed_name |-> "Cake", quantity_kg |-> c[2],
      herd_size |-> 50] :
        c \in {<<1, 20>>, <<2, 30>>, <<4, 10>>, <<3, 0>>}}

\* if selected_feed and consumed_qty > 0 (app.py 827)
ConsumptionAccepted(f) == f.feed_name # "" /\ f.quantity_kg > 0

ReportConsumptionRows ==
    {f \in ReportConsumptionForms : ConsumptionAccepted(f)}

ReportWorkers ==
    <<[worker_id |-> "W1", name |-> "Ram", category |-> "Both",
       daily_wage |-> 500, status |-> "Active"],
      [worker_id |-> "W2", name |-> "Mohan", category |-> "Both",
       daily_wage |-> 400, status |-> "Active"]>>

ReportAttendance ==
    <<[date |-> 1, worker_id |-> "W1", present |-> TRUE, hours |-> 8],
      [date |-> 1, worker_id |-> "W2", present |-> FALSE, hours |-> 8],
      [date |-> 2, worker_id |-> "W1", present |-> TRUE, hours |-> 8]>>

ReportEquipment ==
    <<[equipment_id |-> "E1", name |-> "Tractor", type |-> "Tractor",
       purchase_date |-> 1, purchase_cost |-> 1000, status |-> "Active"]>>

\* nine medicines: expiry on day 30, 31 or 32 and a stock of 4, 5 or 6
\* against a reorder level of 5
ReportMedicine ==
    [i \in 1..9 |->
        [medicine_name |-> <<"Oxytet", "FMD vaccine", "Calcium", "Ivermectin",
                             "Penicillin", "HS vaccine", "Vitamin A",
                             "Albendazole", "Meloxicam">>[i],
         category |-> "Other", quantity |-> 4 + ((i - 1) \div 3),
         cost_per_unit |-> 30, reorder_level |-> 5,
         expiry_date |-> 30 + ((i - 1) % 3)]]

\* the transactions the handlers above append: the feed purchase, the
\* wages of the present workers, the equipment purchase
ReportStoredTransactions ==
    <<Transaction(1, "Expense", "Feed Purchase", "Grains", 200, "Cake")>>

ReportSessionTransactions ==
    <<Transaction(1, "Expense", "Labour", "Both", 500, "W1"),
      Transaction(2, "Expense", "Labour", "Both", 500, "W1"),
      Transaction(1, "Expense", "Equipment Purchase", "Tractor", 1000, "E1"),
      Transaction(2, "Income", "Other Income", "", 40, "")>>

\* rows as the store holds them
Stored(t, rows) == [i \in 1..Len(rows) |-> NewRow(t, rows[i], i)]

ReportPeriods == {<<1, 1>>, <<1, 4>>, <<3, 3>>, <<5, 6>>}

ReportDays == {1, 2}

\* a farm with data entered
InitFarm ==
    \E milk \in SeqsUpTo(ReportMilkRows, MaxReportRows),
       consumption \in SeqsUpTo(ReportConsumptionRows, 2),
       farm \in BOOLEAN :
       /\ db = [EmptyStore EXCEPT
                   !["animals"] = Stored("animals", ReportAnimals),
                   !["milk_records"] = Stored("milk_records", milk),
                   !["feed_inventory"] =
                       Stored("feed_inventory", ReportFeedInventory),
                   !["financial_transactions"] =
                       Stored("financial_transactions",
                              ReportStoredTransactions)]
       /\ ss = [data_loaded |-> TRUE, defined |-> TableNames,
                tables |->
                   [EmptyStore EXCEPT
                       !["animals"] = ReportAnimals,
                       !["milk_records"] = milk,
                       !["feed_inventory"] = ReportFeedInventory,
                       !["feed_consumption"] = consumption,
                       !["labour_records"] =
                           IF farm THEN ReportWorkers ELSE <<>>,
                       !["attendance"] =
                           IF farm THEN ReportAttendance ELSE <<>>,
                       !["equipment"] =
                           IF farm THEN ReportEquipment ELSE <<>>,
                       !["medicine_inventory"] =
                           IF farm THEN ReportMedicine ELSE <<>>,
                       !["financial_transactions"] =
                           IF farm
                           THEN ReportStoredTransactions
                                \o ReportSessionTransactions
                           ELSE ReportStoredTransactions]]

\* a farm with nothing entered yet: the session of a load from an empty
\* store
InitEmptyFarm ==
    /\ db = EmptyStore
    /\ ss = [load_data_from_db(EmptyStore, FreshSession, Len(LoadOrder))
                EXCEPT !.data_loaded = TRUE]

InitReports ==
    /\ configured = TRUE
    /\ \/ InitEmptyFarm
       \/ InitFarm
    /\ last = [op |-> "none", outcome |-> "none", frames |-> <<>>,
               pre |-> EmptyStore]

\* the session table a report reads first
FirstRead(op) ==
    CASE op = "DailyProduction" -> "milk_records"
      [] op = "CowProductivity" -> "animals"
      [] op = "FeedEfficiency" -> "feed_consumption"
      [] op = "LabourCost" -> "attendance"
      [] op = "ProfitAndLoss" -> "financial_transactions"
      [] op = "MedicineAlerts" -> "medicine_inventory"
      [] op = "AssetSummary" -> "animals"

\* a script run that shows a report: what it leaves in the session, and
\* what it has put on the page; reading a session table that was never
\* assigned raises AttributeError
Show(op, r) ==
    /\ PageOpen
    /\ IF FirstRead(op) \notin ss.defined
       THEN /\ last' = [op |-> op, outcome |-> "crash", frames |-> <<>>,
                        pre |-> ss.tables]
            /\ UNCHANGED <<configured, db, ss>>
       ELSE /\ ss' = [ss EXCEPT !.tables = r.session]
            /\ last' = [op |-> op, outcome |-> r.outcome, frames |-> r.frames,
                        pre |-> ss.tables]
            /\ UNCHANGED <<configured, db>>

ShowDailyProduction ==
    Show("DailyProduction", DailyProductionReport(ss.tables))

ShowCowProductivity ==
    Show("CowProductivity", CowProductivityReport(ss.tables))

ShowFeedEfficiency ==
    Show("FeedEfficiency", FeedEfficiencyReport(ss.tables))

ShowLabourCost == Show("LabourCost", LabourCostReport(ss.tables))

ShowProfitAndLoss(pl_from, pl_to) ==
    Show("ProfitAndLoss", ProfitAndLossReport(ss.tables, pl_from, pl_to))

ShowMedicineAlerts(today) ==
    Show("MedicineAlerts", MedicineAlerts(ss.tables, today))

ShowAssetSummary == Show("AssetSummary", AssetSummaryReport(ss.tables))

NextReports ==
    \/ ShowDailyProduction
    \/ ShowCowProductivity
    \/ ShowFeedEfficiency
    \/ ShowLabourCost
    \/ \E p \in ReportPeriods : ShowProfitAndLoss(p[1], p[2])
    \/ \E today \in ReportDays : ShowMedicineAlerts(today)
    \/ ShowAssetSummary

SpecReports == InitReports /\ [][NextReports]_vars

\* the reports
ReportOps ==
    {"DailyProduction", "CowProductivity", "FeedEfficiency", "LabourCost",
     "ProfitAndLoss", "MedicineAlerts", "AssetSummary"}

\* C18: computing a report or dashboard leaves every session table, the
\* 'date' columns included, and the store as they were
C18_ReportsAreReadOnly ==
    [][last'.op \in ReportOps => (ss' = ss /\ db' = db)]_vars

\* the feed efficiency report has been shown over milk and consumption
\* records, and the session still lists their dates as entered
C18_Witness ==
    /\ last.op = "FeedEfficiency"
    /\ last.outcome = "shown"
    /\ last.frames.efficiency # {}
    /\ \A r \in Range(ss.tables["milk_records"]) : IsDate(r["date"])
    /\ \A r \in Range(ss.tables["feed_consumption"]) : IsDate(r["date"])

\* the calendar days a table has records of
DaysOf(rows) == {rows[i]["date"] : i \in 1..Len(rows)}

\* the rows of one calendar day
OnDay(rows, d) == SelectSeq(rows, LAMBDA r : r["date"] = d)

\* C19: daily production has, for each calendar date with at least one milk
\* record, one entry holding the sum of yield_litres of the records of that
\* date, and no entry for any other date; records (2024-01-01, 10),
\* (2024-01-01, 5), (2024-01-02, 7) give {2024-01-01: 15, 2024-01-02: 7}
C19_DailyProductionSumsPerDate ==
    /\ (last.op = "DailyProduction" /\ last.outcome = "shown")
       => LET milk == last.pre["milk_records"]
              daily_production == last.frames.daily_production
          IN  /\ \A d \in DaysOf(milk) :
                    [date |-> to_datetime(d),
                     yield_litres |-> SumOf(OnDay(milk, d), "yield_litres")]
                       \in daily_production
              /\ \A r \in daily_production :
                    \E d \in DaysOf(milk) : r["date"] = to_datetime(d)
              /\ Cardinality(daily_production) = Cardinality(DaysOf(milk))
              /\ (Len(milk) = 3
                  /\ <<milk[1]["date"], milk[1]["yield_litres"]>> = <<1, 10>>
                  /\ <<milk[2]["date"], milk[2]["yield_litres"]>> = <<1, 5>>
                  /\ <<milk[3]["date"], milk[3]["yield_litres"]>> = <<2, 7>>)
                 => daily_production
                       = {[date |-> to_datetime(1), yield_litres |-> 15],
                          [date |-> to_datetime(2), yield_litres |-> 7]}
    /\ (last.op = "DailyProduction" /\ last.outcome = "info")
       => last.pre["milk_records"] = <<>>

\* daily production has been shown over the records (2024-01-01, 10),
\* (2024-01-01, 5), (2024-01-02, 7)
C19_Witness ==
    /\ last.op = "DailyProduction"
    /\ last.outcome = "shown"
    /\ [i \in 1..Len(last.pre["milk_records"]) |->
           <<CalendarDate(last.pre["milk_records"][i]["date"]),
             last.pre["milk_records"][i]["yield_litres"]>>]
          = <<<<<<2024, 1, 1>>, 10>>, <<<<2024, 1, 1>>, 5>>,
              <<<<2024, 1, 2>>, 7>>>>
    /\ Cardinality(last.frames.daily_production) = 2

\* C20: feed efficiency has exactly one row per date that has both feed
\* consumption and milk records, with feed_per_litre the sum of the feed kg
\* of that date over the sum of its milk litres; a date that only one of the
\* two tables has is absent, and no divisor is zero
C20_FeedEfficiencyPerSharedDate ==
    (last.op = "FeedEfficiency" /\ last.outcome = "shown")
    => LET feed == last.pre["feed_consumption"]
           milk == last.pre["milk_records"]
           shared == DaysOf(feed) \cap DaysOf(milk)
           efficiency == last.frames.efficiency
       IN  /\ \A d \in shared :
                 \E r \in efficiency :
                    /\ r["date"] = to_datetime(d)
                    /\ r["feed_kg"] = SumOf(OnDay(feed, d), "quantity_kg")
                    /\ r["milk_litres"] = SumOf(OnDay(milk, d), "yield_litres")
                    /\ r["feed_per_litre"]
                          = Divide(SumOf(OnDay(feed, d), "quantity_kg"),
                                   SumOf(OnDay(milk, d), "yield_litres"))
           /\ \A r \in efficiency :
                 /\ \E d \in shared : r["date"] = to_datetime(d)
                 /\ r["feed_per_litre"].den # 0
           /\ Cardinality(efficiency) = Cardinality(shared)

\* feed efficiency has been shown over tables that share a date and have a
\* date each that the other lacks
C20_Witness ==
    /\ last.op = "FeedEfficiency"
    /\ last.outcome = "shown"
    /\ DaysOf(last.pre["feed_consumption"]) = {1, 4}
    /\ DaysOf(last.pre["milk_records"]) = {1, 3}
    /\ Len(last.pre["milk_records"]) = 3
    /\ Cardinality(last.frames.efficiency) = 1

(***************************************************************************)
(* Labour Management on its own: workers are added, attendance is saved   *)
(* and the labour cost report is shown, all in one session.               *)
(***************************************************************************)
\* attendance is saved while the session lists fewer rows of it, and workers
\* are added while it lists fewer of them
MaxLabourRows == 3

LabourWorkerForms ==
    {[worker_id |-> "W1", name |-> "Ram", category |-> "Both",
      daily_wage |-> 500, status |-> "Active"],
     [worker_id |-> "W2", name |-> "Shyam", category |-> "Labour",
      daily_wage |-> 400, status |-> "Active"],
     [worker_id |-> "W2", name |-> "Mohan", category |-> "Labour",
      daily_wage |-> 300, status |-> "Inactive"]}

\* the values typed into an Hours input
LabourHours == {4, DefaultHours}

InitLabour ==
    /\ configured = TRUE
    /\ db = EmptyStore
    /\ ss = [data_loaded |-> TRUE, defined |-> TableNames,
             tables |-> EmptyStore]
    /\ last = Outcome("none", "none", NoInput, EmptyStore, FALSE, EmptyStore,
                      FALSE)

LabourAddWorker(f) ==
    /\ Len(ss.tables["labour_records"]) < MaxLabourRows - 1
    /\ AddWorkerRun(f)

LabourSaveAttendance(date, presentBy, hoursBy) ==
    /\ Len(ss.tables["attendance"]) < MaxLabourRows
    /\ SaveAttendanceRun(date, presentBy, hoursBy)

NextLabour ==
    \/ \E f \in LabourWorkerForms : LabourAddWorker(f)
    \/ \E date \in AttendanceDates :
          \E presentBy \in [ActiveWorkerIds -> BOOLEAN],
             hoursBy \in [ActiveWorkerIds -> LabourHours] :
             LabourSaveAttendance(date, presentBy, hoursBy)
    \/ ShowLabourCost

SpecLabour == InitLabour /\ [][NextLabour]_vars

\* the attendance rows of a worker id that say present
PresentRows(tables, w) ==
    SelectSeq(tables["attendance"],
              LAMBDA r : r["worker_id"] = w /\ r["present"])

\* C21: in the labour cost report each worker's days_worked is the number of
\* that worker's attendance rows with present = true and total_wages is
\* days_worked * daily_wage, whatever the hours; a worker with no present row
\* has no line, so rows with present = false contribute nothing
C21_LabourCostCountsPresentDays ==
    (last.op = "LabourCost" /\ last.outcome = "shown")
    => LET worker_summary == last.frames.worker_summary
       IN  /\ \A r \in worker_summary :
                 /\ r["days_worked"]
                       = Len(PresentRows(last.pre, r["worker_id"]))
                 /\ r["days_worked"] > 0
                 /\ r["total_wages"] = r["days_worked"] * r["daily_wage"]
                 /\ \E w \in Range(last.pre["labour_records"]) :
                       /\ w["worker_id"] = r["worker_id"]
                       /\ w["daily_wage"] = r["daily_wage"]
           /\ \A w \in Range(last.pre["labour_records"]) :
                 (PresentRows(last.pre, w["worker_id"]) # <<>>)
                 <=> \E r \in worker_summary :
                        /\ r["worker_id"] = w["worker_id"]
                        /\ r["daily_wage"] = w["daily_wage"]

\* the report has been shown for a worker with daily_wage 500 and three
\* present rows of differing hours: total_wages is 1500
C21_Witness ==
    /\ last.op = "LabourCost"
    /\ last.outcome = "shown"
    /\ Len(PresentRows(last.pre, "W1")) = 3
    /\ {r["hours"] : r \in Range(last.pre["attendance"])} = LabourHours
    /\ \E r \in last.frames.worker_summary :
          /\ r["worker_id"] = "W1"
          /\ r["daily_wage"] = 500
          /\ r["days_worked"] = 3
          /\ r["total_wages"] = 1500

\* the rows of a table dated from day a to day b, both included
DatedWithin(rows, a, b) ==
    SelectSeq(rows, LAMBDA r : a <= r["date"] /\ r["date"] <= b)

\* the rows of one transaction type
OfType(rows, type) == SelectSeq(rows, LAMBDA r : r["type"] = type)

\* the litres of the milk records of a period
MilkWithin(tables, period) ==
    SumOf(DatedWithin(tables["milk_records"], period[1], period[2]),
          "yield_litres")

\* the per-litre figures are on the page
PerLitreReported ==
    /\ last.outcome = "shown"
    /\ last.frames.per_litre # <<>>

\* C22 as stated: profit and loss reports cost_per_litre and
\* profit_per_litre exactly when the total milk of the range is above zero
C22_PerLitreWheneverMilk ==
    last.op = "ProfitAndLoss"
    => (PerLitreReported <=> MilkWithin(last.pre, last.frames.period) > 0)

\* C22: profit and loss is shown when a transaction is dated in the range
\* [from, to], both days included; then income and expense are the sums of
\* the Income and Expense amounts dated in the range, net is income less
\* expense, and cost_per_litre = expense / total_milk and profit_per_litre =
\* net / total_milk are reported exactly when the milk of the range is above
\* zero, so no divisor is zero
C22_ProfitAndLossOverRange ==
    last.op = "ProfitAndLoss"
    => LET period == last.frames.period
           within == DatedWithin(last.pre["financial_transactions"],
                                 period[1], period[2])
           income == SumOf(OfType(within, "Income"), "amount")
           expense == SumOf(OfType(within, "Expense"), "amount")
           milk == MilkWithin(last.pre, period)
       IN  /\ last.outcome = "shown" <=> within # <<>>
           /\ last.outcome = "shown"
              => /\ last.frames.total_income = income
                 /\ last.frames.total_expense = expense
                 /\ last.frames.net_profit = income - expense
                 /\ PerLitreReported <=> milk > 0
                 /\ PerLitreReported
                    => /\ last.frames.per_litre.cost_per_litre
                             = Divide(expense, milk)
                       /\ last.frames.per_litre.profit_per_litre
                             = Divide(income - expense, milk)
                       /\ last.frames.per_litre.cost_per_litre.den # 0

\* profit and loss has been shown for the one-day range of day 1, which has
\* expenses of 1700 and 15 litres of milk, with the per-litre figures
C22_Witness ==
    /\ last.op = "ProfitAndLoss"
    /\ last.frames.period = <<1, 1>>
    /\ PerLitreReported
    /\ last.frames.total_expense = 1700
    /\ last.frames.per_litre.total_milk = 15

\* C23: a medicine row is flagged expiring soon exactly when its expiry_date
\* is no later than today + 30 days, the 30th day included, and low stock
\* exactly when its quantity is at most its reorder_level, equality included;
\* neither flag looks at the other's columns
C23_MedicineAlertFlags ==
    (last.op = "MedicineAlerts" /\ last.outcome = "shown")
    => \A r \in Range(last.pre["medicine_inventory"]) :
          /\ r \in Range(last.frames.expiring_soon)
             <=> r["expiry_date"] <= last.frames.today + 30
          /\ r \in Range(last.frames.low_stock)
             <=> r["quantity"] <= r["reorder_level"]

\* the alerts have been shown on day 1 for medicines that expire on day 31
\* and on day 32 and that hold 5 and 6 units against a reorder level of 5:
\* each combination of the two flags is on the page
C23_Witness ==
    /\ last.op = "MedicineAlerts"
    /\ last.outcome = "shown"
    /\ last.frames.today = 1
    /\ \A e \in BOOLEAN, l \in BOOLEAN :
          \E r \in Range(last.pre["medicine_inventory"]) :
             /\ r["expiry_date"] = (IF e THEN 31 ELSE 32)
             /\ r["quantity"] = (IF l THEN 5 ELSE 6)
             /\ (r \in Range(last.frames.expiring_soon)) = e
             /\ (r \in Range(last.frames.low_stock)) = l

MaxCsvRows == 2

Quote == "\""

Comma == ","

LineBreak == "\n"

\* the missing value of a text column
NoneCell == <<NullStr>>

HealthTextColumns == <<"description", "medicine", "dosage">>

\* what the Add Health Record form can leave in the three columns: the
\* description is required, the medicine is None or a name from the
\* inventory, the dosage may be left empty
CsvHealthRows ==
    [description : {<<"a">>, <<"a", Comma>>, <<Quote>>, <<"a", LineBreak>>},
     medicine : {NoneCell, <<"a">>},
     dosage : {<<>>, <<Comma>>, <<"a">>}]

CsvListings ==
    UNION {[1..n -> CsvHealthRows] : n \in 1..MaxCsvRows}

\* a writer that never quotes
NeverQuoted(text) == FALSE

\* csv.QUOTE_MINIMAL, the default of to_csv
NeedsQuoting(text) ==
    \E i \in 1..Len(text) : text[i] \in {Comma, Quote, LineBreak}

RECURSIVE DoubleQuotes(_)
DoubleQuotes(text) ==
    IF text = <<>> THEN <<>>
    ELSE (IF Head(text) = Quote THEN <<Quote, Quote>> ELSE <<Head(text)>>)
         \o DoubleQuotes(Tail(text))

\* one cell as written: na_rep = '' for a missing value
CsvField(cell) ==
    IF cell = NoneCell THEN <<>>
    ELSE IF NeedsQuoting(cell)
         THEN <<Quote>> \o DoubleQuotes(cell) \o <<Quote>>
         ELSE cell

RECURSIVE CsvLine(_)
CsvLine(cells) ==
    IF Len(cells) = 1 THEN CsvField(cells[1]) \o <<LineBreak>>
    ELSE CsvField(cells[1]) \o <<Comma>> \o CsvLine(Tail(cells))

RECURSIVE CsvLines(_, _)
CsvLines(columns, rows) ==
    IF rows = <<>> THEN <<>>
    ELSE CsvLine([i \in 1..Len(columns) |-> Head(rows)[columns[i]]])
         \o CsvLines(columns, Tail(rows))

\* df.to_csv(index=False); a column name is one symbol of the text
to_csv(columns, rows) ==
    CsvLine([i \in 1..Len(columns) |-> <<columns[i]>>])
    \o CsvLines(columns, rows)

\* a reader of the format: comma delimiter, a quoted field runs to its
\* closing quote and a doubled quote inside it is one quote, a line break
\* outside quotes ends the row
RECURSIVE ReadFrom(_, _, _, _, _, _)
ReadFrom(text, i, field, row, rows, quoted) ==
    IF i > Len(text) THEN rows
    ELSE IF quoted
    THEN IF text[i] # Quote
         THEN ReadFrom(text, i + 1, Append(field, text[i]), row, rows, TRUE)
         ELSE IF i < Len(text) /\ text[i + 1] = Quote
         THEN ReadFrom(text, i + 2, Append(field, Quote), row, rows, TRUE)
         ELSE ReadFrom(text, i + 1, field, row, rows, FALSE)
    ELSE IF text[i] = Quote
    THEN ReadFrom(text, i + 1, field, row, rows, TRUE)
    ELSE IF text[i] = Comma
    THEN ReadFrom(text, i + 1, <<>>, Append(row, field), rows, FALSE)
    ELSE IF text[i] = LineBreak
    THEN ReadFrom(text, i + 1, <<>>, <<>>, Append(rows, Append(row, field)),
                  FALSE)
    ELSE ReadFrom(text, i + 1, Append(field, text[i]), row, rows, FALSE)

\* the two readings a reader gives an empty field, the same in every
\* column: the empty text (csv.reader) or the missing value (read_csv)
EmptyReadings == {<<>>, NoneCell}

\* the table read back: the first line names the columns, each further line
\* is a row, an empty field reads as `empty`
read_csv(text, empty) ==
    LET lines == ReadFrom(text, 1, <<>>, <<>>, <<>>, FALSE)
        columns == [i \in 1..Len(lines[1]) |-> lines[1][i][1]]
        Cell(f) == IF f = <<>> THEN empty ELSE f
    IN  [columns |-> columns,
         rows |-> [k \in 1..(Len(lines) - 1) |->
                     [c \in Range(columns) |->
                        Cell(lines[k + 1][CHOOSE i \in 1..Len(columns) :
                                            columns[i] = c])]]]

InitCsv ==
    /\ configured = TRUE
    /\ \E listing \in CsvListings :
          /\ db = [EmptyStore EXCEPT !["health_records"] = listing]
          /\ ss = [data_loaded |-> TRUE, defined |-> TableNames,
                   tables |-> db]
    /\ last = [op |-> "none"]

\* the Download Report button under the Annual Herd Health Summary
DownloadReport ==
    /\ last.op = "none"
    /\ ss.tables["health_records"] # <<>>
    /\ last' = [op |-> "DownloadReport",
                listing |-> [columns |-> HealthTextColumns,
                             rows |-> ss.tables["health_records"]],
                csv |-> to_csv(HealthTextColumns,
                               ss.tables["health_records"])]
    /\ UNCHANGED <<configured, db, ss>>

\* the downloaded file read back
ReadDownload(empty) ==
    /\ last.op = "DownloadReport"
    /\ last' = [op |-> "ReadDownload", listing |-> last.listing,
                csv |-> last.csv, parsed |-> read_csv(last.csv, empty)]
    /\ UNCHANGED <<configured, db, ss>>

NextCsv ==
    \/ DownloadReport
    \/ \E empty \in EmptyReadings : ReadDownload(empty)

SpecCsv == InitCsv /\ [][NextCsv]_vars

\* a table with every missing value read as the empty text
Blanked(table) ==
    [columns |-> table.columns,
     rows |-> [k \in 1..Len(table.rows) |->
                 [c \in DOMAIN table.rows[k] |->
                    IF table.rows[k][c] = NoneCell THEN <<>>
                    ELSE table.rows[k][c]]]]

\* C25 as stated: a listing exported to CSV and read back is equal to the
\* listing
C25_RoundTripEqual ==
    last.op = "ReadDownload" => last.parsed = last.listing

\* C25: a listing exported to CSV and read back has the columns of the
\* listing in field order and, in every cell, the text of the listing,
\* commas, quotes and line breaks included, a missing value and an empty
\* text counting as the same cell
C25_RoundTripUpToMissing ==
    last.op = "ReadDownload" => Blanked(last.parsed) = Blanked(last.listing)

\* a download of two health records whose descriptions hold a comma and a
\* line break, one without a medicine and with an empty dosage, has been
\* read back
C25_Witness ==
    /\ last.op = "ReadDownload"
    /\ Len(last.listing.rows) = 2
    /\ last.listing.rows[1].description = <<"a", Comma>>
    /\ last.listing.rows[2].description = <<"a", LineBreak>>
    /\ last.listing.rows[1].medicine = NoneCell
    /\ last.listing.rows[1].dosage = <<>>
    /\ Blanked(last.parsed).rows = Blanked(last.listing).rows

\* the record table of each handler that also books a transaction
BookedRecord ==
    [RecordMilk |-> "milk_records", AddCultivation |-> "fodder_cultivation",
     AddFeedPurchase |-> "feed_inventory", AddHealthRecord |-> "health_records"]

\* the submission in `last` called for a record and its transaction
BooksTransaction ==
    /\ last.op \in DOMAIN BookedRecord
    /\ last.outcome \in {"success", "error"}
    /\ CASE last.op = "RecordMilk" -> last.input.usage = "Sold"
         [] last.op = "AddFeedPurchase" -> TRUE
         [] OTHER -> last.input.cost > 0

\* C26: a submission that writes a record and its transaction (milk sold,
\* feed purchase, fodder cultivation or health record with a cost) leaves
\* either both in the store or neither, and neither when it ends in an error
C26_TwoWritesAllOrNothing ==
    BooksTransaction
    => LET records == Len(db[BookedRecord[last.op]])
                      - Len(last.pre[BookedRecord[last.op]])
           booked == Len(db["financial_transactions"])
                     - Len(last.pre["financial_transactions"])
       IN  /\ records = booked
           /\ last.outcome = "error" => records = 0

\* C27: whenever data_loaded is true all thirteen session tables are defined,
\* and a page is rendered at the start of a session only over all thirteen:
\* a load in which a query failed leaves data_loaded false and renders none
C27_LoadedMeansAllTablesRead ==
    /\ ss.data_loaded => ss.defined = TableNames
    /\ (last.op \in {"StartSession", "Interact"} /\ last.outcome = "rendered")
       => ss.defined = TableNames

(***************************************************************************)
(* Record Milk Collection on a farm with two lactating cows: every outcome *)
(* of the handler, over more milk records than the app specification holds.*)
(***************************************************************************)
MaxMilkRows == 3

MilkSaleForms ==
    {[date |-> 1, yield_litres |-> 10, usage |-> "Sold",
      price_per_litre |-> 50],
     [date |-> 1, yield_litres |-> 5, usage |-> "Sold",
      price_per_litre |-> 40],
     [date |-> 2, yield_litres |-> 5, usage |-> "Calf Feeding",
      price_per_litre |-> 50],
     [date |-> 1, yield_litres |-> 0, usage |-> "Sold",
      price_per_litre |-> 50]}

InitMilk ==
    /\ configured = TRUE
    /\ db = [EmptyStore EXCEPT !["animals"] = Stored("animals", ReportAnimals)]
    /\ ss = [load_data_from_db(db, FreshSession, Len(LoadOrder))
                EXCEPT !.data_loaded = TRUE]
    /\ last = Outcome("none", "none", NoInput, EmptyStore, FALSE, EmptyStore,
                      FALSE)

MilkSubmission(f, animal) ==
    /\ Len(db["milk_records"]) < MaxMilkRows
    /\ RecordMilkRun(f, animal)

NextMilk ==
    \E f \in MilkSaleForms, animal \in Range(AnimalIds(ReportAnimals)) :
        MilkSubmission(f, animal)

SpecMilk == InitMilk /\ [][NextMilk]_vars

\* the sale a milk record stands for: date, cow, amount
SaleOfRecord(r) ==
    <<r["date"], r["animal_id"], r["yield_litres"] * r["price_per_litre"]>>

\* the sale an Income transaction of category 'Milk Sales' books
SaleOfTransaction(t) == <<t["date"], t["reference_id"], t["amount"]>>

SoldRecords(store) ==
    {i \in 1..Len(store["milk_records"]) :
        store["milk_records"][i]["usage"] = "Sold"}

MilkSales(store) ==
    {j \in 1..Len(store["financial_transactions"]) :
        /\ store["financial_transactions"][j]["type"] = "Income"
        /\ store["financial_transactions"][j]["category"] = "Milk Sales"}

\* the sold records and the 'Milk Sales' transactions pair off one to one,
\* each record with a transaction of its date, its cow and its amount
OneSalePerSoldRecord(store) ==
    \A sale \in {SaleOfRecord(store["milk_records"][i]) :
                    i \in SoldRecords(store)}
            \cup {SaleOfTransaction(store["financial_transactions"][j]) :
                    j \in MilkSales(store)} :
        Cardinality({i \in SoldRecords(store) :
                        SaleOfRecord(store["milk_records"][i]) = sale})
        = Cardinality({j \in MilkSales(store) :
                        SaleOfTransaction(store["financial_transactions"][j])
                        = sale})

\* C28: a successful Record Milk Collection adds its milk record and, when
\* the usage is Sold, exactly one Income transaction of category 'Milk
\* Sales' with the record's date, reference_id = its animal_id and amount =
\* yield_litres * price_per_litre, and with any other usage no transaction;
\* so a store in which sold records and 'Milk Sales' transactions pair off
\* one to one still is one after it
C28_OneSalePerSoldRecord ==
    [][(last'.op = "RecordMilk" /\ last'.outcome = "success")
       => /\ Len(db'["milk_records"]) = Len(db["milk_records"]) + 1
          /\ SubSeq(db'["milk_records"], 1, Len(db["milk_records"]))
             = db["milk_records"]
          /\ LET r == db'["milk_records"][Len(db'["milk_records"])]
                 n == Len(db["financial_transactions"])
             IN  /\ \A c \in DOMAIN last'.input : r[c] = last'.input[c]
                 /\ IF r["usage"] = "Sold"
                    THEN /\ Len(db'["financial_transactions"]) = n + 1
                         /\ SubSeq(db'["financial_transactions"], 1, n)
                            = db["financial_transactions"]
                         /\ n + 1 \in MilkSales(db')
                         /\ SaleOfTransaction(
                               db'["financial_transactions"][n + 1])
                            = SaleOfRecord(r)
                    ELSE db'["financial_transactions"]
                         = db["financial_transactions"]
          /\ OneSalePerSoldRecord(db) => OneSalePerSoldRecord(db')]_vars

\* three milk collections have been recorded without a failure, two of them
\* sales of the same cow on the same day, and the store holds the two
\* matching transactions
C28_Witness ==
    /\ last.op = "RecordMilk" /\ last.outcome = "success"
    /\ Len(db["milk_records"]) = 3
    /\ Cardinality(SoldRecords(db)) = 2
    /\ Cardinality(MilkSales(db)) = 2
    /\ db["milk_records"][1]["animal_id"] = db["milk_records"][3]["animal_id"]
    /\ db["milk_records"][1]["date"] = db["milk_records"][3]["date"]
    /\ db["milk_records"][1]["usage"] = "Sold"
    /\ db["milk_records"][3]["usage"] = "Sold"
    /\ db["milk_records"][2]["usage"] = "Calf Feeding"
    /\ OneSalePerSoldRecord(db)

\* the rows a step appended to a table
Appended(before, after) == SubSeq(after, Len(before) + 1, Len(after))

LabourExpenses(tables) ==
    SelectSeq(tables["financial_transactions"],
              LAMBDA t : t["type"] = "Expense" /\ t["category"] = "Labour")

RECURSIVE TotalOf(_, _)
TotalOf(frame, col) ==
    IF frame = {} THEN 0
    ELSE LET r == CHOOSE x \in frame : TRUE
         IN  r[col] + TotalOf(frame \ {r}, col)

\* the total of the labour cost report's total_wages column, nothing when
\* the report has only its notice
LabourCostTotal(tables) ==
    LET report == LabourCostReport(tables)
    IN  IF report.outcome = "shown"
        THEN TotalOf(report.frames.worker_summary, "total_wages")
        ELSE 0

UniqueWorkerIds(tables) ==
    \A i, j \in 1..Len(tables["labour_records"]) :
        tables["labour_records"][i]["worker_id"]
        = tables["labour_records"][j]["worker_id"] => i = j

\* C29: a Save Attendance appends one attendance row per Active worker, in
\* their order, and none for the others, and one Expense transaction of
\* category 'Labour' with amount = the worker's daily_wage for exactly the
\* workers marked present; and after every step, when the worker ids are
\* unique, the Labour expense transactions sum to the labour cost report's
\* total of days_worked * daily_wage
C29_AttendanceBooksWages ==
    [][/\ (last'.op = "SaveAttendance" /\ last'.outcome = "success")
          => LET active == SelectSeq(ss.tables["labour_records"], IsActive)
                 rows == Appended(ss.tables["attendance"],
                                  ss'.tables["attendance"])
                 paid == Appended(ss.tables["financial_transactions"],
                                  ss'.tables["financial_transactions"])
                 here == {i \in 1..Len(active) : rows[i]["present"]}
             IN  /\ SubSeq(ss'.tables["attendance"], 1,
                           Len(ss.tables["attendance"]))
                    = ss.tables["attendance"]
                 /\ Len(rows) = Len(active)
                 /\ \A i \in 1..Len(active) :
                       rows[i]["worker_id"] = active[i]["worker_id"]
                 /\ SubSeq(ss'.tables["financial_transactions"], 1,
                           Len(ss.tables["financial_transactions"]))
                    = ss.tables["financial_transactions"]
                 /\ Len(paid) = Cardinality(here)
                 /\ paid = LabourExpenses([financial_transactions |-> paid])
                 /\ \A i \in here :
                       Len(SelectSeq(paid, LAMBDA t :
                              /\ t["reference_id"] = active[i]["worker_id"]
                              /\ t["amount"] = active[i]["daily_wage"])) = 1
       /\ UniqueWorkerIds(ss'.tables)
          => SumOf(LabourExpenses(ss'.tables), "amount")
             = LabourCostTotal(ss'.tables)]_vars

\* attendance has been saved twice for two workers with different wages,
\* one of them absent once, and the three Labour expenses sum to the
\* report's total
C29_Witness ==
    /\ last.op = "SaveAttendance" /\ last.outcome = "success"
    /\ UniqueWorkerIds(ss.tables)
    /\ Len(ss.tables["labour_records"]) = 2
    /\ Len(ss.tables["attendance"]) = 4
    /\ Len(PresentRows(ss.tables, "W1")) = 2
    /\ Len(PresentRows(ss.tables, "W2")) = 1
    /\ Len(LabourExpenses(ss.tables)) = 3
    /\ SumOf(LabourExpenses(ss.tables), "amount") = 1400
    /\ LabourCostTotal(ss.tables) = 1400

\* the handlers that write to the store, and the tables they write
StoreBackedOps ==
    {"RegisterAnimal", "RecordBreeding", "UpdateCalving", "RecordMilk",
     "AddCultivation", "AddFeedPurchase", "AddHealthRecord"}

StoreBackedTables ==
    {"animals", "breeding_records", "milk_records", "fodder_cultivation",
     "feed_inventory", "health_records", "financial_transactions"}

\* C30: after a store-backed submission that ended with its success message
\* the session's tables of the store-backed entity types are the store's
\* listings, the record just written included
C30_SessionMirrorsStoreAfterSuccess ==
    (last.op \in StoreBackedOps /\ last.outcome = "success")
    => \A t \in StoreBackedTables : ss.tables[t] = get_all(db, t)

====
